---- MODULE Spec2Model ----
(***************************************************************************)
(* Model of the pioreactor control core.                                   *)
(*                                                                         *)
(* Part 1 (specification Spec): one BackgroundJob (background_jobs/base.py)*)
(* together with the MQTT broker it talks to: lifecycle state, published   *)
(* settings, the /set handler, the exit protocol, the subscriber client's  *)
(* last will and the reconnect protocol.                                   *)
(*                                                                         *)
(* Part 2 (specification SpecPump): one call of actions/add_media.py.      *)
(*                                                                         *)
(* Part 3 (specification SpecEkf): the dosing events on their way to the   *)
(* GrowthRateCalculator (background_jobs/growth_rate_calculating.py) and   *)
(* the variance scaling of utils/streaming_calculations.py, whose restore  *)
(* runs in a threading.Timer thread beside the caller's thread.            *)
(*                                                                         *)
(* A handler of the program is one action.  The statements of a handler    *)
(* are composed as operators on a record m that holds the job's fields;    *)
(* m.trace lists, in program order, what the handler did (assignments,     *)
(* publishes, hook calls, client calls, raised exceptions).  The variable  *)
(* trace keeps the events of the most recent handler only.                 *)
(*                                                                         *)
(* Library behaviour taken from MQTT / paho-mqtt, as the code relies on it:*)
(*   - client.disconnect() on a connected client is a clean disconnect:    *)
(*     the broker drops the last will and on_disconnect runs with rc = 0;  *)
(*     on a client that has no connection it sends nothing and calls       *)
(*     nothing;                                                            *)
(*   - a connection that ends without DISCONNECT makes the broker publish  *)
(*     the last will; the client sees rc # 0 and, while its loop runs,     *)
(*     reconnects and calls on_connect;                                    *)
(*   - the publishing client is taken to be connected from its creation    *)
(*     until it is stopped, and a publish through it reaches the broker.   *)
(***************************************************************************)
EXTENDS Integers, Sequences, FiniteSets, TLC

VARIABLES
    pc,             \* where the job's process is: new, after_init, after_exit_protocol, running, raised, exited, killed
    testing,        \* "pytest" in sys.modules or TESTING set (base.py 251)
    othersRunning,  \* other processes of this node that run the same job_name
    state,          \* BackgroundJob.state
    attrs,          \* the subclass's attributes, name -> value
    pubClient,      \* pub_client: none, open, closed
    subConn,        \* sub_client's connection as the client sees it: none, up, down, closed
    subLoop,        \* sub_client's network loop (thread) is running
    brokerSession,  \* the broker holds a live session of sub_client (with its last will)
    subscribed,     \* the /set filters are registered in that session
    retained,       \* the retained message on the job's $state topic
    usr1Pending,    \* SIGUSR1 raised by the subscriber thread, not yet handled by the main thread
    exitCode,       \* -1 while the process runs
    trace,          \* events of the most recent handler
    \* ---- add_media (Part 2)
    apc,            \* position inside add_media
    ain,            \* the call's arguments and environment
    aml,            \* local ml
    aduration,      \* local duration
    aretry,         \* retry_count of the publish in progress
    pwm,            \* the PWM object: none, created, locked, started, stopped, cleaned
    dosing,         \* dosing events delivered to pioreactor/<unit>/<exp>/dosing_events
    aresult,        \* what the call returned (or raised)
    atrace,         \* PWM and publish events of the call, in order
    \* ---- growth-rate calculator and its EKF (Part 3)
    ekf,            \* ExtendedKalmanFilter: covariance, variance-scaling fields, timers
    grc,            \* the bus between add_media and GrowthRateCalculator
    \* ---- Stirrer (Part 4)
    stir,           \* the Stirrer object, its PWM and its polling thread
    \* ---- LEDAutomation (Part 5)
    auto,           \* the automation: lifecycle state, timer, position inside run()
    \* ---- control algorithms (Part 6)
    algo,           \* the ControlAlgorithm object and what its last run did
    \* ---- clients of pubsub.py (Part 7)
    cb,
    sub, 
    \* ---- Monitor (Part 8)
    mon, 
    \* ---- ODReader (Part 9)
    odr, 
    \* ---- GrowthRateCalculator listeners (SpecGr)
    gr, 
    \* ---- Monitor.self_checks (SpecSelf)
    sc, 
    \* ---- Pico_DAC (SpecDac)
    dac

jobVars == <<pc, testing, othersRunning, state, attrs, pubClient, subConn, subLoop,
             brokerSession, subscribed, retained, usr1Pending, exitCode, trace>>
pumpVars == <<apc, ain, aml, aduration, aretry, pwm, dosing, aresult, atrace>>
ekfVars == <<ekf, grc>>
stirVars == <<stir>>
autoVars == <<auto>>
algoVars == <<algo>>
pubsubVars == <<cb, sub>>
monVars == <<mon>>
odVars == <<odr>>
grVars == <<gr>>
selfVars == <<sc>>
dacVars == <<dac>>
vars == <<jobVars, pumpVars, ekfVars, stirVars, autoVars, algoVars, pubsubVars, monVars, odVars, grVars, selfVars, dacVars>>
notJob == <<pumpVars, ekfVars, stirVars, autoVars, algoVars, pubsubVars, monVars, odVars, grVars, selfVars, dacVars>>
notPump == <<jobVars, ekfVars, stirVars, autoVars, algoVars, pubsubVars, monVars, odVars, grVars, selfVars, dacVars>>
notEkf == <<jobVars, pumpVars, stirVars, autoVars, algoVars, pubsubVars, monVars, odVars, grVars, selfVars, dacVars>>
notStir == <<jobVars, pumpVars, ekfVars, autoVars, algoVars, pubsubVars, monVars, odVars, grVars, selfVars, dacVars>>
notAuto == <<jobVars, pumpVars, ekfVars, stirVars, algoVars, pubsubVars, monVars, odVars, grVars, selfVars, dacVars>>
notAlgo == <<jobVars, pumpVars, ekfVars, stirVars, autoVars, pubsubVars, monVars, odVars, grVars, selfVars, dacVars>>
notPubsub == <<jobVars, pumpVars, ekfVars, stirVars, autoVars, algoVars, monVars, odVars, grVars, selfVars, dacVars>>
notMon == <<jobVars, pumpVars, ekfVars, stirVars, autoVars, algoVars, pubsubVars, odVars, grVars, selfVars, dacVars>>
notOd == <<jobVars, pumpVars, ekfVars, stirVars, autoVars, algoVars, pubsubVars, monVars, grVars, selfVars, dacVars>>
notGr == <<jobVars, pumpVars, ekfVars, stirVars, autoVars, algoVars, pubsubVars, monVars, odVars, selfVars, dacVars>>
notSelf == <<jobVars, pumpVars, ekfVars, stirVars, autoVars, algoVars, pubsubVars, monVars, odVars, grVars, dacVars>>
notDac == <<jobVars, pumpVars, ekfVars, stirVars, autoVars, algoVars, pubsubVars, monVars, odVars, grVars, selfVars>>

----------------------------------------------------------------------------
(* Bounds of the model *)
MaxOthers == 1

----------------------------------------------------------------------------
(* base.py 49-54 *)
INIT == "init"
READY == "ready"
DISCONNECTED == "disconnected"
SLEEPING == "sleeping"
LOST == "lost"
LIFECYCLE_STATES == {INIT, READY, DISCONNECTED, SLEEPING, LOST}

(* pubsub.py 12-15 *)
AT_MOST_ONCE == 0
AT_LEAST_ONCE == 1
EXACTLY_ONCE == 2

(* Python values: None, str, float (in tenths). *)
NoneV == [t |-> "none", n |-> 0, s |-> ""]
StrV(x) == [t |-> "str", n |-> 0, s |-> x]
FloatV(k) == [t |-> "float", n |-> k, s |-> ""]
BoolV(b) == [t |-> "bool", n |-> IF b THEN 1 ELSE 0, s |-> ""]

(* The subclass: two listed settings and one attribute that is not listed.  *)
(* base.py 71 appends "state".                                             *)
subclass_editable_settings == <<"volume", "target_od">>
editable_settings == subclass_editable_settings \o <<"state">>
EditableSet == {editable_settings[i] : i \in DOMAIN editable_settings}
InitialAttrs == [volume |-> FloatV(5), target_od |-> NoneV, latest_od |-> NoneV]

(* Inputs on the bus *)
StatePayloads == {"init", "ready", "sleeping", "disconnected", "lost", "garbage"}
SettingPayloads == {"2.5", "garbage"}
SetMessages == ({"$state"} \X StatePayloads)
               \cup ({"volume", "target_od", "latest_od"} \X SettingPayloads)
Signals == {"SIGTERM", "SIGINT", "SIGHUP"}

----------------------------------------------------------------------------
(* Events of a handler *)
Ev(kind, name, val, retain, qos, by) ==
    [ev |-> kind, name |-> name, val |-> val, retain |-> retain, qos |-> qos, by |-> by]
AssignEv(name, val, by) == Ev("assign", name, val, FALSE, 0, by)
PubEv(topic, val, retain, qos) == Ev("publish", topic, val, retain, qos, "pub_client")
CallEv(fn, arg, by) == Ev("call", fn, arg, FALSE, 0, by)
RaiseEv(exc, by) == Ev("raise", exc, NoneV, FALSE, 0, by)
ClientEv(kind, client) == Ev(kind, client, NoneV, FALSE, 0, "")

Log(m, e) == [m EXCEPT !.trace = Append(@, e)]

(* The job as a record, at the start of a handler *)
Cur == [pc |-> pc, testing |-> testing, state |-> state, attrs |-> attrs,
        pubClient |-> pubClient, subConn |-> subConn, subLoop |-> subLoop,
        brokerSession |-> brokerSession, subscribed |-> subscribed,
        retained |-> retained, usr1 |-> usr1Pending, exitCode |-> exitCode,
        trace |-> <<>>, exc |-> "none"]

Commit(m) ==
    /\ pc' = m.pc
    /\ state' = m.state
    /\ attrs' = m.attrs
    /\ pubClient' = m.pubClient
    /\ subConn' = m.subConn
    /\ subLoop' = m.subLoop
    /\ brokerSession' = m.brokerSession
    /\ subscribed' = m.subscribed
    /\ retained' = m.retained
    /\ usr1Pending' = m.usr1
    /\ exitCode' = m.exitCode
    /\ trace' = m.trace
    /\ UNCHANGED <<testing, othersRunning>>
    /\ UNCHANGED notJob

Alive(p) == p \in {"after_init", "after_exit_protocol", "running"}
HandlersInstalled(p) == p \in {"after_exit_protocol", "running"}

----------------------------------------------------------------------------
(* The broker publishes the subscriber session's last will (base.py 116-121) *)
FireWill(m) ==
    IF m.brokerSession
    THEN [m EXCEPT !.retained = LOST, !.brokerSession = FALSE, !.subscribed = FALSE]
    ELSE m

(* BackgroundJob.publish, base.py 163-164 *)
publish(m, topic, val, retain, qos) ==
    LET m1 == Log(m, PubEv(topic, val, retain, qos))
    IN  IF m.pubClient = "open" /\ retain /\ topic = "$state"
        THEN [m1 EXCEPT !.retained = val.s]
        ELSE m1

getattr(m, attr) == IF attr = "state" THEN StrV(m.state) ELSE m.attrs[attr]

(* BackgroundJob.publish_attr, base.py 166-183 *)
publish_attr(m, attr) ==
    LET attr_name == IF attr = "state" THEN "$state" ELSE attr
    IN  publish(m, attr_name, getattr(m, attr), TRUE, EXACTLY_ONCE)

(* object.__setattr__ *)
object_setattr(m, name, val) ==
    IF name = "state" THEN [m EXCEPT !.state = val.s]
    ELSE IF name \in DOMAIN m.attrs THEN [m EXCEPT !.attrs[name] = val]
    ELSE m

setattr_no_publish(m, name, val, by) ==
    Log(object_setattr(m, name, val), AssignEv(name, val, by))

(* BackgroundJob.__setattr__, base.py 388-391 *)
setattr(m, name, val, by) ==
    LET m1 == Log(object_setattr(m, name, val), AssignEv(name, val, by))
    IN  IF name \in EditableSet THEN publish_attr(m1, name) ELSE m1

(* A hook of the subclass (on_ready, on_sleeping, on_disconnect): it may raise, *)
(* and the caller catches and logs (base.py 290-293, 298-301, 309-312).         *)
CallHook(m, fn, raises, by) ==
    LET m1 == Log(m, CallEv(fn, NoneV, by))
    IN  IF raises THEN Log(m1, RaiseEv("Exception", fn)) ELSE m1


----------------------------------------------------------------------------
(* The process ends: its sockets close.  A subscriber session that was not  *)
(* closed by DISCONNECT makes the broker publish the will.                   *)
ProcessEnd(m, how, code) ==
    FireWill([m EXCEPT !.pc = how, !.exitCode = code, !.usr1 = FALSE,
                        !.subLoop = FALSE,
                        !.subConn = IF @ = "none" THEN "none" ELSE "closed",
                        !.pubClient = IF @ = "none" THEN "none" ELSE "closed"])

(* create_pub_client, base.py 105-109 *)
create_pub_client(m) == [m EXCEPT !.pubClient = "open"]

(* create_sub_client, base.py 111-150: a new session under the same client  *)
(* id; a session the broker still holds for that id is closed by the broker  *)
(* (its will is published).  The client returns connected (145-146).         *)
create_sub_client(m) ==
    [FireWill(m) EXCEPT !.subConn = "up", !.subLoop = TRUE,
                        !.brokerSession = TRUE, !.subscribed = FALSE]

(* start_general_passive_listeners, base.py 370-379, with subscribe_and_callback 235-237 *)
start_general_passive_listeners(m) ==
    LET m1 == Log(m, ClientEv("subscribe", "sub"))
    IN  IF m.subConn = "up" /\ m.brokerSession
        THEN [m1 EXCEPT !.subscribed = TRUE]
        ELSE m1

SettableTopic(setting) ==
    CASE setting = "volume" -> "volume/$settable"
      [] setting = "target_od" -> "target_od/$settable"
      [] setting = "state" -> "state/$settable"

RECURSIVE PublishSettable(_, _)
PublishSettable(m, i) ==
    IF i > Len(editable_settings) THEN m
    ELSE PublishSettable(
            publish(m, SettableTopic(editable_settings[i]), BoolV(TRUE), FALSE, AT_LEAST_ONCE),
            i + 1)

(* declare_settable_properties_to_broker, base.py 323-336 *)
declare_settable_properties_to_broker(m) ==
    PublishSettable(
        publish(m, "$properties", StrV("volume,target_od,state"), FALSE, AT_LEAST_ONCE), 1)

(* client.disconnect() of the subscriber client (paho): a clean disconnect   *)
(* when the client holds a connection, nothing otherwise.                    *)
sub_disconnect(m) ==
    LET m1 == Log(m, ClientEv("disconnect", "sub"))
    IN  IF m.subConn = "up"
        THEN [m1 EXCEPT !.subConn = "closed", !.brokerSession = FALSE, !.subscribed = FALSE]
        ELSE [m1 EXCEPT !.subConn = "closed"]

sub_loop_stop(m) == [Log(m, ClientEv("loop_stop", "sub")) EXCEPT !.subLoop = FALSE]

(* loop_stop() and disconnect() of the publishing client, base.py 319-321 *)
StopPub(m) ==
    [Log(Log(m, ClientEv("loop_stop", "pub")), ClientEv("disconnect", "pub"))
        EXCEPT !.pubClient = "closed"]

(* exit_python, base.py 247-254, run by the main thread.  sys.exit(0) runs    *)
(* the atexit handler disconnect_gracefully (259), which returns at once      *)
(* when the state is DISCONNECTED.                                            *)
exit_python_when_disconnected(m) ==
    LET m1 == Log(m, CallEv("exit_python", NoneV, "SIGUSR1"))
    IN  IF m.testing THEN m1
        ELSE ProcessEnd(Log(m1, ClientEv("sys.exit", "0")), "exited", 0)

(* on_mqtt_disconnect, base.py 152-161.  rc = 0: os.kill(getpid(), SIGUSR1). *)
(* Without a handler SIGUSR1 terminates the process; raised by the main      *)
(* thread the handler runs before os.kill returns; raised by the subscriber  *)
(* thread it is left for the main thread.                                    *)
on_mqtt_disconnect(m, rc, thread) ==
    LET m1 == Log(m, CallEv("on_mqtt_disconnect", NoneV, thread))
    IN  IF rc = 0
        THEN LET m2 == Log(m1, ClientEv("kill", "SIGUSR1"))
             IN  IF ~HandlersInstalled(m.pc) THEN ProcessEnd(m2, "killed", 138)
                 ELSE IF thread = "main" THEN exit_python_when_disconnected(m2)
                 ELSE [m2 EXCEPT !.usr1 = TRUE]
        ELSE m1

(* The loop over pubsub_clients = [sub_client, pub_client], base.py 319-321. *)
(* In the main thread the clean disconnect's callback runs inside            *)
(* sub_client.disconnect(); in the subscriber thread the DISCONNECT is       *)
(* written, and the callback run, once the handler has returned.             *)
StopClients(m, thread) ==
    LET wasUp == m.subConn = "up"
        m1 == sub_disconnect(sub_loop_stop(m))
    IN  IF ~wasUp THEN StopPub(m1)
        ELSE IF thread = "main"
             THEN LET m2 == on_mqtt_disconnect(m1, 0, thread)
                  IN  IF m2.pc = "exited" THEN m2 ELSE StopPub(m2)
             ELSE on_mqtt_disconnect(StopPub(m1), 0, thread)

disconnected_stop_first(m, thread, raises) ==
    LET m1 == sub_disconnect(sub_loop_stop(m))
        m2 == StopPub(m1)
        m3 == CallHook(m2, "on_disconnect", raises, "disconnected")
    IN  setattr(m3, "state", StrV(DISCONNECTED), "disconnected")

disconnected_unless_hook_raises(m, thread, raises) ==
    LET m1 == CallHook(m, "on_disconnect", raises, "disconnected")
    IN  IF raises THEN [m1 EXCEPT !.exc = "Exception"]
        ELSE StopClients(setattr(m1, "state", StrV(DISCONNECTED), "disconnected"), thread)

(* BackgroundJob.disconnected, base.py 305-321 *)
disconnected(m, thread, raises) ==
    LET m1 == CallHook(m, "on_disconnect", raises, "disconnected")
        m2 == setattr(m1, "state", StrV(DISCONNECTED), "disconnected")
    IN  StopClients(m2, thread)

(* BackgroundJob.ready, base.py 289-295 *)
ready(m, raises) ==
    setattr(CallHook(m, "on_ready", raises, "ready"), "state", StrV(READY), "ready")

(* BackgroundJob.sleeping, base.py 297-303 *)
sleeping(m, raises) ==
    setattr(CallHook(m, "on_sleeping", raises, "sleeping"), "state", StrV(SLEEPING), "sleeping")

(* The re-init branch of init(), base.py 276-284: disconnect() then          *)
(* loop_stop() on each client, then two new clients.                         *)
RecreateClients(m, thread) ==
    LET wasUp == m.subConn = "up"
        m1 == sub_loop_stop(sub_disconnect(m))
        m2 == [Log(Log(m1, ClientEv("disconnect", "pub")), ClientEv("loop_stop", "pub"))
                  EXCEPT !.pubClient = "closed"]
        m3 == setattr(create_pub_client(m2), "pub_client", NoneV, "init")
        m4 == setattr(create_sub_client(m3), "sub_client", NoneV, "init")
        m5 == setattr(m4, "pubsub_clients", NoneV, "init")
    IN  [m |-> m5, wasUp |-> wasUp]

(* BackgroundJob.init, base.py 272-287 *)
init(m, thread) ==
    LET m1 == setattr(m, "state", StrV(INIT), "init")
        r  == IF thread # "main" THEN RecreateClients(m1, thread)
              ELSE [m |-> m1, wasUp |-> FALSE]
        m2 == start_general_passive_listeners(declare_settable_properties_to_broker(r.m))
    IN  IF r.wasUp THEN on_mqtt_disconnect(m2, 0, thread) ELSE m2

set_state_unchecked(m, new_state, thread, raises) ==
    LET m0 == Log(m, CallEv("set_state", StrV(new_state), thread))
    IN  setattr(m0, "state", StrV(new_state), "set_state")

(* BackgroundJob.set_state, base.py 338-340.  getattr(self, "lost") fails:   *)
(* the class has no method of that name.                                     *)
set_state(m, new_state, thread, raises) ==
    LET m0 == Log(m, CallEv("set_state", StrV(new_state), thread))
    IN  IF new_state \notin LIFECYCLE_STATES
        THEN [Log(m0, RaiseEv("AssertionError", "set_state")) EXCEPT !.exc = "AssertionError"]
        ELSE CASE new_state = INIT -> init(m0, thread)
               [] new_state = READY -> ready(m0, raises)
               [] new_state = SLEEPING -> sleeping(m0, raises)
               [] new_state = DISCONNECTED -> disconnected(m0, thread, raises)
               [] new_state = LOST ->
                    [Log(m0, RaiseEv("AttributeError", "set_state")) EXCEPT !.exc = "AttributeError"]


----------------------------------------------------------------------------
(* str.lstrip("$") on the attribute part of the topic, base.py 346 *)
lstrip_dollar(a) == IF a = "$state" THEN "state" ELSE a

(* type(previous_value)(new_value), base.py 362: float(str), str(str),       *)
(* NoneType(str).  err is the exception the call raises, "none" if it        *)
(* returns.                                                                  *)
Cast(type, payload) ==
    CASE type = "float" ->
            IF payload = "2.5" THEN [err |-> "none", val |-> FloatV(25)]
            ELSE [err |-> "ValueError", val |-> NoneV]
      [] type = "str" -> [err |-> "none", val |-> StrV(payload)]
      [] type = "bool" -> [err |-> "none", val |-> BoolV(payload # "")]
      [] type = "none" -> [err |-> "TypeError", val |-> NoneV]

(* The outcomes of the subclass hook that set_state(new_state) runs: it     *)
(* raises or it returns.  init and the failing calls run no hook.           *)
HookOutcomes(new_state) ==
    IF new_state \in {READY, SLEEPING, DISCONNECTED} THEN BOOLEAN ELSE {FALSE}

(* hasattr(self, "set_%s" % attr), base.py 356: the job has set_state only *)
HasSetHook(attr) == attr = "state"

set_attr_from_message_always_assigns(m, topicAttr, payload, raises) ==
    LET attr == lstrip_dollar(topicAttr)
    IN  IF attr \notin EditableSet THEN m
        ELSE setattr(m, attr, StrV(payload), "set_attr_from_message")

(* self.logger.info(f"Updated {attr} from ... to ..."), base.py 366-368: the  *)
(* one log record of set_attr_from_message, written when nothing was raised *)
log_updated(m, attr) ==
    IF m.exc = "none" THEN Log(m, Ev("log", attr, getattr(m, attr), FALSE, 0, "info")) ELSE m

set_attr_from_message_unlisted_too(m, topicAttr, payload, raises) ==
    LET attr == lstrip_dollar(topicAttr)
    IN  IF HasSetHook(attr) THEN log_updated(set_state(m, payload, "sub", raises), attr)
        ELSE log_updated(setattr(m, attr, StrV(payload), "set_attr_from_message"), attr)

(* BackgroundJob.set_attr_from_message, base.py 342-368 *)
set_attr_from_message(m, topicAttr, payload, raises) ==
    LET attr == lstrip_dollar(topicAttr)
    IN  IF attr \notin EditableSet THEN m
        ELSE IF HasSetHook(attr) THEN log_updated(set_state(m, payload, "sub", raises), attr)
        ELSE LET c == Cast(getattr(m, attr).t, payload)
             IN  CASE c.err = "none" ->
                        log_updated(setattr(m, attr, c.val, "set_attr_from_message"), attr)
                   [] c.err = "TypeError" ->
                        log_updated(setattr(m, attr, StrV(payload), "set_attr_from_message"),
                                    attr)
                   [] OTHER ->
                        [Log(m, RaiseEv(c.err, "set_attr_from_message")) EXCEPT !.exc = c.err]

(* start_passive_listeners, base.py 98-101: nothing in the base class *)
start_passive_listeners(m) == m

reconnect_protocol_no_republish(m) ==
    start_passive_listeners(start_general_passive_listeners(
        Log(m, CallEv("reconnect_protocol", NoneV, "sub"))))

(* reconnect_protocol, base.py 134-138 *)
reconnect_protocol(m) ==
    start_passive_listeners(start_general_passive_listeners(
        publish_attr(Log(m, CallEv("reconnect_protocol", NoneV, "sub")), "state")))

(* disconnect_gracefully, base.py 242-245 *)
disconnect_gracefully(m, raises) ==
    LET m0 == Log(m, CallEv("disconnect_gracefully", NoneV, "main"))
    IN  IF m.state = DISCONNECTED THEN m0
        ELSE set_state(m0, DISCONNECTED, "main", raises)

(* pio_jobs_running() lists this process too (base.py 384) *)
pio_jobs_running_same_name == othersRunning + 1

check_for_duplicate_process_off_by_one(n) == n > 2

(* check_for_duplicate_process, base.py 381-386: TRUE when it raises *)
check_for_duplicate_process(n) == n > 1

----------------------------------------------------------------------------
(* Actions of the job *)

(* __init__, base.py 63-84: up to and including set_state(INIT) *)
Construct1 ==
    /\ pc = "new"
    /\ LET m0 == Log(Cur, CallEv("__init__", NoneV, "main"))
           m1 == setattr(setattr(setattr(m0, "sub_jobs", NoneV, "__init__"),
                                 "job_name", NoneV, "__init__"), "logger", NoneV, "__init__")
           m2 == Log(m1, CallEv("check_for_duplicate_process", NoneV, "__init__"))
       IN  IF check_for_duplicate_process(pio_jobs_running_same_name)
           THEN Commit([Log(m2, RaiseEv("ValueError", "check_for_duplicate_process"))
                            EXCEPT !.pc = "raised", !.exitCode = 1])
           ELSE LET m3 == setattr(setattr(setattr(m2, "experiment", NoneV, "__init__"),
                                          "unit", NoneV, "__init__"),
                                  "editable_settings", NoneV, "__init__")
                    m4 == setattr(create_pub_client(m3), "pub_client", NoneV, "__init__")
                    m5 == setattr(create_sub_client(m4), "sub_client", NoneV, "__init__")
                    m6 == setattr(m5, "pubsub_clients", NoneV, "__init__")
                    m7 == set_state(m6, INIT, "main", FALSE)
                IN  Commit([m7 EXCEPT !.pc = "after_init"])

(* set_up_exit_protocol, base.py 85 and 240-270, in the main thread *)
Construct2 ==
    /\ pc = "after_init"
    /\ Commit([Log(Cur, CallEv("set_up_exit_protocol", NoneV, "main"))
                  EXCEPT !.pc = "after_exit_protocol"])

(* set_state(READY), base.py 86 *)
Construct3 ==
    /\ pc = "after_exit_protocol"
    /\ \E raises \in BOOLEAN :
         Commit([set_state(Cur, READY, "main", raises) EXCEPT !.pc = "running"])

(* A message on <job>/<attr>/set reaches the wrapped callback, base.py 214-225 *)
Message ==
    /\ Alive(pc) /\ subConn = "up" /\ subLoop /\ brokerSession /\ subscribed
    /\ \E msg \in SetMessages :
       \E raises \in (IF lstrip_dollar(msg[1]) = "state" THEN HookOutcomes(msg[2]) ELSE {FALSE}) :
         Commit(set_attr_from_message(
                   Log(Cur, Ev("call", "set_attr_from_message", StrV(msg[2]), FALSE, 0, msg[1])),
                   msg[1], msg[2], raises))

(* The program calls set_state on the running job (as automations/led/base.py 190 does) *)
SetStateCall ==
    /\ pc = "running"
    /\ \E v \in LIFECYCLE_STATES \cup {"garbage"} :
       \E raises \in HookOutcomes(v) :
         Commit(set_state(Cur, v, "main", raises))

(* SIGTERM, SIGINT or SIGHUP with the handlers of base.py 259-267 installed *)
Signal ==
    /\ Alive(pc) /\ HandlersInstalled(pc)
    /\ \E sig \in Signals :
       \E raises \in (IF state = DISCONNECTED THEN {FALSE} ELSE BOOLEAN) :
         Commit(disconnect_gracefully(Log(Cur, ClientEv("signal", sig)), raises))

(* The main thread handles the SIGUSR1 the subscriber thread raised:         *)
(* exit_python, base.py 247-254, then the atexit handler (259).              *)
ExitPython ==
    /\ usr1Pending /\ Alive(pc) /\ HandlersInstalled(pc)
    /\ \E raises \in (IF testing \/ state = DISCONNECTED THEN {FALSE} ELSE BOOLEAN) :
         LET m1 == Log([Cur EXCEPT !.usr1 = FALSE], CallEv("exit_python", NoneV, "SIGUSR1"))
         IN  IF testing THEN Commit(m1)
             ELSE LET m2 == disconnect_gracefully(Log(m1, ClientEv("sys.exit", "0")), raises)
                  IN  Commit(IF m2.pc = "exited" THEN m2 ELSE ProcessEnd(m2, "exited", 0))

(* kill -9, power loss, or a signal whose handler is not installed *)
Kill ==
    /\ Alive(pc)
    /\ Commit(ProcessEnd(Log(Cur, ClientEv("signal", "SIGKILL")), "killed", 137))

(* The broker finds the subscriber's connection dead (keepalive 20, base.py 126) *)
BrokerSeesLoss ==
    /\ brokerSession
    /\ Commit(FireWill(Log(Cur, ClientEv("connection_lost", "broker"))))

(* The subscriber client finds its connection dead: on_disconnect with rc # 0 *)
ClientSeesLoss ==
    /\ Alive(pc) /\ subConn = "up" /\ subLoop
    /\ Commit(on_mqtt_disconnect(
                 [Log(Cur, ClientEv("connection_lost", "sub")) EXCEPT !.subConn = "down"],
                 1, "sub"))

(* The subscriber client's loop reconnects and calls on_connect *)
Reconnect ==
    /\ Alive(pc) /\ subConn = "down" /\ subLoop
    /\ Commit(reconnect_protocol(
                 [FireWill(Log(Cur, ClientEv("reconnect", "sub")))
                     EXCEPT !.subConn = "up", !.brokerSession = TRUE]))

----------------------------------------------------------------------------
(* Part 2: actions/add_media.py *)

IntV(k) == [t |-> "int", n |-> k, s |-> ""]
IsNone(v) == v.t = "none"
isinstance_float(v) == v.t = "float"

(* Bound: how many times the continuous loop republishes *)
MaxRepublish == 2

(* pubsub.publish's retries parameter, pubsub.py 27 *)
retries == 10

(* add_media.py 56 *)
continuous_duration == 600

(* The stored media_ml_calibration (floats from the fit), or none stored *)
Calibrations == {[has |-> FALSE, duration_ |-> 1, bias_ |-> 0],
                 [has |-> TRUE, duration_ |-> 1, bias_ |-> 0],
                 [has |-> TRUE, duration_ |-> 2, bias_ |-> 2]}
MlInputs == {NoneV, FloatV(-2), FloatV(0), FloatV(2), IntV(2)}
DurationInputs == {NoneV, FloatV(-1), FloatV(0), FloatV(1), IntV(1)}
NoCall == [ml |-> NoneV, duration |-> NoneV, continuously |-> FALSE,
           cal |-> [has |-> FALSE, duration_ |-> 1, bias_ |-> 0], configured |-> FALSE]

(* pioreactor.utils.pump_ml_to_duration: true division gives a float *)
pump_ml_to_duration(ml, duration_, bias_) == FloatV((ml.n - bias_) \div duration_)
(* pioreactor.utils.pump_duration_to_ml: float calibration gives a float *)
pump_duration_to_ml(duration, duration_, bias_) == FloatV(duration.n * duration_ + bias_)

DosingPub(ml) == Ev("publish", "dosing_events", ml, FALSE, EXACTLY_ONCE, "add_media")
PwmEv(what) == Ev("pwm", what, NoneV, FALSE, 0, "add_media")
DosingEvent(ml) == [volume_change |-> ml, event |-> "add_media", qos |-> EXACTLY_ONCE]

(* add_media.py 48-58: the duration the call computes (or was given) *)
computed_duration(in) ==
    IF ~IsNone(in.ml) THEN pump_ml_to_duration(in.ml, in.cal.duration_, in.cal.bias_)
    ELSE IF ~IsNone(in.duration) THEN in.duration
    ELSE IntV(continuous_duration)

prepare_without_refusals(in) ==
    IF (IsNone(in.ml) /\ IsNone(in.duration) /\ ~in.continuously)
          \/ (~IsNone(in.ml) /\ ~IsNone(in.duration))
    THEN [out |-> "raise", exc |-> "AssertionError", ml |-> in.ml, duration |-> in.duration]
    ELSE [out |-> "publish", exc |-> "none",
          ml |-> IF ~IsNone(in.ml) THEN in.ml
                 ELSE pump_duration_to_ml(computed_duration(in),
                                          in.cal.duration_, in.cal.bias_),
          duration |-> computed_duration(in)]

(* add_media.py 30-62: what the call has decided before it publishes *)
prepare(in) ==
    LET Raise(e) == [out |-> "raise", exc |-> e, ml |-> in.ml, duration |-> in.duration]
        Return0 == [out |-> "return", exc |-> "none", ml |-> FloatV(0), duration |-> in.duration]
        ml == IF ~IsNone(in.ml) THEN in.ml
              ELSE IF ~IsNone(in.duration)
                   THEN pump_duration_to_ml(in.duration, in.cal.duration_, in.cal.bias_)
                   ELSE pump_duration_to_ml(IntV(continuous_duration),
                                            in.cal.duration_, in.cal.bias_)
        duration == computed_duration(in)
    IN  IF IsNone(in.ml) /\ IsNone(in.duration) /\ ~in.continuously THEN Raise("AssertionError")
        ELSE IF ~IsNone(in.ml) /\ ~IsNone(in.duration) THEN Raise("AssertionError")
        ELSE IF ~in.cal.has THEN Return0
        ELSE IF ~in.configured THEN Return0
        ELSE IF ~IsNone(in.ml) /\ in.ml.n < 0 THEN Raise("AssertionError")
        ELSE IF ~isinstance_float(ml) THEN Raise("AssertionError")
        ELSE IF ~isinstance_float(duration) THEN Raise("AssertionError")
        ELSE IF duration.n < 0 THEN Raise("AssertionError")
        ELSE [out |-> "publish", exc |-> "none", ml |-> ml, duration |-> duration]

(* A caller calls add_media(ml, duration, continuously) *)
AddMediaCall ==
    /\ apc = "idle"
    /\ \E ml \in MlInputs, duration \in DurationInputs, continuously \in BOOLEAN,
          cal \in Calibrations, configured \in BOOLEAN :
          ain' = [ml |-> ml, duration |-> duration, continuously |-> continuously,
                  cal |-> cal, configured |-> configured]
    /\ apc' = "called"
    /\ UNCHANGED <<aml, aduration, aretry, pwm, dosing, aresult, atrace>>
    /\ UNCHANGED notPump

(* add_media.py 30-62, then on to `next` *)
PrepareThen(next) ==
    /\ LET r == prepare(ain)
       IN  /\ aml' = r.ml
           /\ aduration' = r.duration
           /\ apc' = CASE r.out = "raise" -> "raised"
                       [] r.out = "return" -> "returned"
                       [] OTHER -> next
           /\ aresult' = CASE r.out = "raise" -> StrV(r.exc)
                           [] r.out = "return" -> r.ml
                           [] OTHER -> aresult
    /\ aretry' = 1
    /\ UNCHANGED <<ain, pwm, dosing, atrace>>
    /\ UNCHANGED notPump

AddMediaPrepare_skips_publish ==
    /\ apc = "called"
    /\ PrepareThen("create_pwm")

(* add_media.py 30-72: the checks, then the first publish *)
AddMediaPrepare ==
    /\ apc = "called"
    /\ PrepareThen("publishing")

(* One round of pubsub.publish's loop, pubsub.py 31-49: the first publish  *)
(* (add_media.py 73-75) is outside the try, the ones of the continuous     *)
(* loop (87-91) are inside it.                                             *)
PublishAttempt ==
    /\ apc \in {"publishing", "republishing"}
    /\ \E delivered \in BOOLEAN :
          IF delivered
          THEN /\ dosing' = Append(dosing, DosingEvent(aml))
               /\ atrace' = Append(atrace, DosingPub(aml))
               /\ apc' = IF apc = "publishing" THEN "create_pwm" ELSE "sleep"
               /\ UNCHANGED <<aretry, aresult>>
          ELSE /\ aretry' = aretry + 1
               /\ atrace' = Append(atrace, Ev("publish_failed", "dosing_events", aml,
                                              FALSE, EXACTLY_ONCE, "add_media"))
               /\ IF aretry + 1 = retries
                  THEN IF apc = "publishing"
                       THEN apc' = "raised" /\ aresult' = StrV("ConnectionRefusedError")
                       ELSE apc' = "finally" /\ UNCHANGED aresult
                  ELSE UNCHANGED <<apc, aresult>>
               /\ UNCHANGED dosing
    /\ UNCHANGED <<ain, aml, aduration, pwm>>
    /\ UNCHANGED notPump

(* add_media.py 79: pwm = PWM(MEDIA_PIN, cal["hz"]).  If the constructor   *)
(* raises, pwm is unbound in the finally block (98).                       *)
PwmCreate ==
    /\ apc = "create_pwm"
    /\ \E ok \in BOOLEAN :
          IF ok
          THEN /\ pwm' = "created"
               /\ apc' = "lock"
               /\ atrace' = Append(atrace, PwmEv("create"))
               /\ UNCHANGED aresult
          ELSE /\ apc' = "raised"
               /\ aresult' = StrV("UnboundLocalError")
               /\ atrace' = Append(atrace, PwmEv("create_failed"))
               /\ UNCHANGED pwm
    /\ UNCHANGED <<ain, aml, aduration, aretry, dosing>>
    /\ UNCHANGED notPump

(* add_media.py 80: pwm.lock(); a failure is caught at 94 *)
PwmLock ==
    /\ apc = "lock"
    /\ \E ok \in BOOLEAN :
          IF ok
          THEN /\ pwm' = "locked"
               /\ apc' = "start"
               /\ atrace' = Append(atrace, PwmEv("lock"))
          ELSE /\ apc' = "finally"
               /\ atrace' = Append(atrace, PwmEv("lock_failed"))
               /\ UNCHANGED pwm
    /\ UNCHANGED <<ain, aml, aduration, aretry, dosing, aresult>>
    /\ UNCHANGED notPump

(* add_media.py 81: pwm.start(cal["dc"]); a failure is caught at 94 *)
PwmStart ==
    /\ apc = "start"
    /\ \E ok \in BOOLEAN :
          IF ok
          THEN /\ pwm' = "started"
               /\ apc' = "sleep"
               /\ atrace' = Append(atrace, PwmEv("start"))
          ELSE /\ apc' = "finally"
               /\ atrace' = Append(atrace, PwmEv("start_failed"))
               /\ UNCHANGED pwm
    /\ UNCHANGED <<ain, aml, aduration, aretry, dosing, aresult>>
    /\ UNCHANGED notPump

(* add_media.py 83 and 92: time.sleep(duration); KeyboardInterrupt is not  *)
(* an Exception, so 94 does not catch it, the finally block runs and the   *)
(* interrupt leaves add_media.                                             *)
Sleep ==
    /\ apc = "sleep"
    /\ \E interrupted \in BOOLEAN :
          IF interrupted
          THEN /\ apc' = "finally_interrupted"
               /\ atrace' = Append(atrace, Ev("interrupt", "KeyboardInterrupt", NoneV,
                                              FALSE, 0, "add_media"))
               /\ UNCHANGED aretry
          ELSE /\ ain.continuously => Len(dosing) <= MaxRepublish
               /\ apc' = IF ain.continuously THEN "republishing" ELSE "finally"
               /\ atrace' = Append(atrace, Ev("sleep", "time.sleep", aduration,
                                              FALSE, 0, "add_media"))
               /\ aretry' = 1
    /\ UNCHANGED <<ain, aml, aduration, pwm, dosing, aresult>>
    /\ UNCHANGED notPump

(* add_media.py 97-102: pwm.stop(); pwm.cleanup(); return ml *)
Finally ==
    /\ apc \in {"finally", "finally_interrupted"}
    /\ pwm' = "cleaned"
    /\ atrace' = atrace \o <<PwmEv("stop"), PwmEv("cleanup")>>
    /\ IF apc = "finally"
       THEN apc' = "returned" /\ aresult' = aml
       ELSE apc' = "raised" /\ aresult' = StrV("KeyboardInterrupt")
    /\ UNCHANGED <<ain, aml, aduration, aretry, dosing>>
    /\ UNCHANGED notPump

----------------------------------------------------------------------------
(* Part 3: utils/streaming_calculations.py and growth_rate_calculating.py *)

(* Bounds *)
MaxEvents == 3
MaxTime == 5
MaxUpdates == 1
MaxBus == 2
(* `seconds` of the scaling, in clock ticks *)
Window == 2

(* A covariance matrix is an identifier >= 1; None is 0; the matrix that    *)
(* streaming_calculations.py 179-180 builds from matrix v is Inflate(v).    *)
NoneCov == 0
InitialCov == 1
Inflate(v) == v + 100
UpdatedCovs == {2, 3}

InitEkf == [cov |-> InitialCov, pre |-> NoneCov, scaling |-> FALSE, timers |-> <<>>,
            hpc |-> "idle", herr |-> "none", now |-> 0, events |-> 0, updates |-> 0,
            openAtStart |-> FALSE, lastEvent |-> 0, base |-> NoneCov, restores |-> 0]

(* Timers whose function may still run *)
LiveTimers(e) == {i \in DOMAIN e.timers : e.timers[i].st \in {"waiting", "r0", "r1", "r2"}}

(* threading.Timer.cancel(): stops a timer that is still waiting, and does  *)
(* nothing to one whose function has started                                *)
cancel(timers, i) ==
    IF i \in DOMAIN timers /\ timers[i].st = "waiting"
    THEN [timers EXCEPT ![i].st = "cancelled"]
    ELSE timers

(* scale_OD_variance_for_next_n_seconds, streaming_calculations.py 182-183. *)
(* base, lastEvent, openAtStart, restores and events record the history.    *)
scale_begin(e) ==
    [e EXCEPT !.timers = IF e.scaling THEN cancel(e.timers, Len(e.timers)) ELSE @,
              !.hpc = "timer",
              !.herr = "none",
              !.openAtStart = e.scaling,
              !.lastEvent = e.now,
              !.events = @ + 1,
              !.base = IF LiveTimers(e) = {} THEN e.cov ELSE @,
              !.restores = IF LiveTimers(e) = {} THEN 0 ELSE @]

(* A caller calls ekf.scale_OD_variance_for_next_n_seconds(factor, seconds) *)
ScaleCall ==
    /\ ekf.hpc = "idle"
    /\ ekf.events < MaxEvents
    /\ ekf' = scale_begin(ekf)
    /\ UNCHANGED grc
    /\ UNCHANGED notEkf

(* streaming_calculations.py 185-187: a new Timer(seconds, reverse_change) is started *)
ScaleTimer ==
    /\ ekf.hpc = "timer"
    /\ ekf' = [ekf EXCEPT !.timers = Append(@, [st |-> "waiting", deadline |-> ekf.now + Window]),
                          !.hpc = "f1"]
    /\ UNCHANGED grc
    /\ UNCHANGED notEkf

(* forward_change, streaming_calculations.py 175-176 *)
ForwardChange1 ==
    /\ ekf.hpc = "f1"
    /\ ekf' = [ekf EXCEPT !.pre = IF ekf.pre = NoneCov THEN ekf.cov ELSE @,
                          !.hpc = "f2"]
    /\ UNCHANGED grc
    /\ UNCHANGED notEkf

(* forward_change, streaming_calculations.py 178 *)
ForwardChange2 ==
    /\ ekf.hpc = "f2"
    /\ ekf' = [ekf EXCEPT !.scaling = TRUE, !.hpc = "f3"]
    /\ UNCHANGED grc
    /\ UNCHANGED notEkf

(* forward_change, streaming_calculations.py 179-180: None has no diagonal() *)
ForwardChange3 ==
    /\ ekf.hpc = "f3"
    /\ ekf' = IF ekf.pre = NoneCov
              THEN [ekf EXCEPT !.herr = "AttributeError", !.hpc = "idle"]
              ELSE [ekf EXCEPT !.cov = Inflate(ekf.pre), !.hpc = "idle"]
    /\ UNCHANGED grc
    /\ UNCHANGED notEkf

(* threading.Timer.run: after `seconds`, unless cancelled, call reverse_change *)
TimerFire ==
    /\ \E i \in DOMAIN ekf.timers :
          /\ ekf.timers[i].st = "waiting"
          /\ ekf.timers[i].deadline <= ekf.now
          /\ ekf' = [ekf EXCEPT !.timers[i].st = "r0"]
    /\ UNCHANGED grc
    /\ UNCHANGED notEkf

(* reverse_change, streaming_calculations.py 170 *)
ReverseChange1 ==
    /\ \E i \in DOMAIN ekf.timers :
          /\ ekf.timers[i].st = "r0"
          /\ ekf' = [ekf EXCEPT !.scaling = FALSE, !.timers[i].st = "r1"]
    /\ UNCHANGED grc
    /\ UNCHANGED notEkf

(* reverse_change, streaming_calculations.py 171: None has no copy() *)
ReverseChange2 ==
    /\ \E i \in DOMAIN ekf.timers :
          /\ ekf.timers[i].st = "r1"
          /\ ekf' = IF ekf.pre = NoneCov
                    THEN [ekf EXCEPT !.timers[i].st = "crashed"]
                    ELSE [ekf EXCEPT !.cov = ekf.pre, !.timers[i].st = "r2"]
    /\ UNCHANGED grc
    /\ UNCHANGED notEkf

(* reverse_change, streaming_calculations.py 172 *)
ReverseChange3 ==
    /\ \E i \in DOMAIN ekf.timers :
          /\ ekf.timers[i].st = "r2"
          /\ ekf' = [ekf EXCEPT !.pre = NoneCov, !.timers[i].st = "done",
                                !.restores = @ + 1]
    /\ UNCHANGED grc
    /\ UNCHANGED notEkf

(* ExtendedKalmanFilter.update, streaming_calculations.py 132-155, called in *)
(* the thread of the od_raw_batched subscription: a new covariance_         *)
EkfUpdate ==
    /\ ekf.updates < MaxUpdates
    /\ \E c \in UpdatedCovs \ {ekf.cov} :
          ekf' = [ekf EXCEPT !.cov = c, !.updates = @ + 1,
                             \* an update that lands before the run's first capture
                             \* (175-176) still counts as before the run
                             !.base = IF ekf.hpc \in {"timer", "f1"} /\ ekf.pre = NoneCov
                                      THEN c ELSE @]
    /\ UNCHANGED grc
    /\ UNCHANGED notEkf

(* Time passes once the threads that can run have run *)
Tick ==
    /\ ekf.now < MaxTime
    /\ ekf.hpc = "idle"
    /\ \A i \in DOMAIN ekf.timers :
          /\ ekf.timers[i].st \notin {"r0", "r1", "r2"}
          /\ ekf.timers[i].st = "waiting" => ekf.timers[i].deadline > ekf.now
    /\ ekf' = [ekf EXCEPT !.now = @ + 1]
    /\ UNCHANGED grc
    /\ UNCHANGED notEkf

(* Topics below pioreactor/<unit>/<experiment>/ *)
DosingTopic == "dosing_events"
GrcFilters == {"od_raw_batched", "io_events"}
(* the method update_ekf_variance_after_io_event calls, and the methods the EKF has *)
HandlerMethod == "scale_OD_variance_for_next_n_steps"
EkfMethods == {"predict", "update", "scale_OD_variance_for_next_n_seconds",
               "_predict_state", "_predict_covariance", "_jacobian_process",
               "_jacobian_observation", "_is_positive_definite"}

InitGrc == [bus |-> <<>>, published |-> 0, inbox |-> <<>>, dropped |-> <<>>, handled |-> <<>>]

(* add_media.py 73-75 publishes a dosing event; any other client may        *)
(* publish on io_events                                                     *)
BusPublish ==
    /\ grc.published < MaxBus
    /\ \E msg \in {[topic |-> DosingTopic, by |-> "add_media"],
                   [topic |-> "io_events", by |-> "other"]} :
          grc' = [grc EXCEPT !.bus = Append(@, msg), !.published = @ + 1]
    /\ UNCHANGED ekf
    /\ UNCHANGED notEkf

(* The broker passes a message to the subscriptions that match its topic    *)
(* (growth_rate_calculating.py 186-204)                                     *)
Route ==
    /\ grc.bus # <<>>
    /\ LET msg == Head(grc.bus)
       IN  grc' = IF msg.topic \in GrcFilters
                  THEN [grc EXCEPT !.bus = Tail(@), !.inbox = Append(@, msg)]
                  ELSE [grc EXCEPT !.bus = Tail(@), !.dropped = Append(@, msg)]
    /\ UNCHANGED ekf
    /\ UNCHANGED notEkf

(* GrowthRateCalculator.update_ekf_variance_after_io_event,                 *)
(* growth_rate_calculating.py 151-152                                       *)
UpdateEkfVarianceAfterIoEvent ==
    /\ grc.inbox # <<>>
    /\ ekf.hpc = "idle"
    /\ LET msg == Head(grc.inbox)
       IN  IF HandlerMethod \in EkfMethods
           THEN /\ ekf' = scale_begin(ekf)
                /\ grc' = [grc EXCEPT !.inbox = Tail(@),
                                      !.handled = Append(@, [by |-> msg.by, out |-> "scaled"])]
           ELSE /\ grc' = [grc EXCEPT !.inbox = Tail(@),
                                      !.handled = Append(@, [by |-> msg.by,
                                                             out |-> "AttributeError"])]
                /\ UNCHANGED ekf
    /\ UNCHANGED notEkf

(* Part 4: the Stirrer (background_jobs/stirring.py).                        *)
(* Duty cycles are whole percents, RPMs whole revolutions per minute; the    *)
(* quotients of the calibrated lookup and of the moving average are taken    *)
(* downwards to that unit (the code rounds to five decimals).                *)

MaxPolls == 2
MaxSets == 2

(* stirring.py 165-167: config "initial_duty_cycle", fallback 60 *)
initial_duty_cycle == 60

(* stirring_calibration["linear_v1"], stirring.py 214-218; rpm_coef = num/den *)
NoStirCalibration == [linear_v1 |-> FALSE, num |-> 0, den |-> 1, intercept |-> 0]
StirCalibrations ==
    { NoStirCalibration,
      [linear_v1 |-> TRUE, num |-> 1, den |-> 10, intercept |-> 10],
      [linear_v1 |-> TRUE, num |-> 1, den |-> 10, intercept |-> -20] }

(* click.FloatRange(0, 1000, clamp=True), stirring.py 325 *)
TargetRpms == {0, 500, 1000}
(* payloads of duty_cycle/set and direct calls of set_duty_cycle *)
DutyCycleInputs == {-10, 0, 50, 100, 150}
(* what RpmCalculator measures and what the PID answers *)
RecentRpms == {0, 400}
PidOutputs == {-150, -5, 5, 150}

InitStirrer ==
    [ spc |-> "new", lifecycle |-> DISCONNECTED,
      cal |-> NoStirCalibration, rpm_calculator |-> FALSE,
      target_rpm |-> 0, duty_cycle |-> initial_duty_cycle,
      previous_duty_cycle |-> 0, measured_rpm |-> NoneV,
      pwmst |-> "none", handed |-> <<>>, thread |-> "none", polls |-> 0, sets |-> 0 ]

(* pioreactor.utils.clamp(minimum, x, maximum) *)
clamp(minimum, x, maximum) ==
    IF x < minimum THEN minimum ELSE IF x > maximum THEN maximum ELSE x

(* the lambda returned by initialize_rpm_to_dc_lookup, stirring.py 213-226 *)
rpm_to_dc_lookup(s, rpm) ==
    IF s.cal.linear_v1
    THEN s.duty_cycle -
         ((9 * (s.duty_cycle - ((s.cal.num * rpm) \div s.cal.den + s.cal.intercept)))
             \div 10)
    ELSE s.duty_cycle

(* PWM.start(dc), PWM.change_duty_cycle(dc): the value reaches the pin;      *)
(* handed lists the values the running handler has given to the PWM          *)
pwm_start(s, dc) ==
    [s EXCEPT !.pwmst = "started", !.handed = Append(@, dc)]

pwm_change_duty_cycle(s, dc) ==
    [s EXCEPT !.handed = Append(@, dc)]

(* Stirrer.set_duty_cycle, stirring.py 290-292 *)
set_duty_cycle(s, value) ==
    LET s1 == [s EXCEPT !.duty_cycle = clamp(0, value, 100)]
    IN  pwm_change_duty_cycle(s1, s1.duty_cycle)

(* Stirrer.set_target_rpm, stirring.py 294-297 *)
set_target_rpm(s, value) ==
    LET s1 == [s EXCEPT !.target_rpm = value]
    IN  set_duty_cycle(s1, rpm_to_dc_lookup(s1, s1.target_rpm))

(* Stirrer.stop_stirring, stirring.py 276-278 *)
stop_stirring(s) == set_duty_cycle(s, 0)

(* Stirrer.start_stirring, stirring.py 239-244 *)
stirrer_start_stirring(s) ==
    LET s1 == pwm_start(s, 100)
        s2 == set_duty_cycle(s1, s1.duty_cycle)
    IN  [s2 EXCEPT !.thread = IF @ = "cancelled" THEN @ ELSE "running"]

(* Stirrer.poll, stirring.py 246-265 *)
poll(s, recent_rpm) ==
    IF ~s.rpm_calculator THEN s
    ELSE [s EXCEPT !.measured_rpm =
              IF IsNone(@) THEN IntV(recent_rpm)
              ELSE IntV((5 * @.n + 95 * recent_rpm) \div 100)]

(* a handler of the Stirrer begins *)
handler(s) == [s EXCEPT !.handed = <<>>]

(* Stirrer.__init__, stirring.py 170-211 *)
StirrerInit ==
    /\ stir.spc = "new"
    /\ \E target_rpm \in TargetRpms, cal \in StirCalibrations, calc \in BOOLEAN :
          LET s1 == [stir EXCEPT !.lifecycle = READY, !.pwmst = "locked",
                                 !.rpm_calculator = calc, !.cal = cal,
                                 !.target_rpm = target_rpm]
          IN  stir' = [s1 EXCEPT !.duty_cycle = rpm_to_dc_lookup(s1, s1.target_rpm),
                                 !.thread = "created", !.spc = "constructed"]
    /\ UNCHANGED notStir

(* start_stirring(), stirring.py 300-316: the first Stirrer.start_stirring *)
StartStirring ==
    /\ stir.spc = "constructed"
    /\ stir.lifecycle = READY
    /\ stir' = [stirrer_start_stirring(handler(stir)) EXCEPT !.spc = "stirring"]
    /\ UNCHANGED notStir

(* Stirrer.poll_and_update_dc, stirring.py 267-274, run by the RepeatedTimer *)
PollAndUpdateDc ==
    /\ stir.thread = "running"
    /\ stir.polls < MaxPolls
    /\ \E recent_rpm \in RecentRpms, result \in PidOutputs :
          LET s1 == [poll(handler(stir), recent_rpm) EXCEPT !.polls = @ + 1]
          IN  stir' = IF IsNone(s1.measured_rpm) THEN s1
                      ELSE set_duty_cycle(s1, s1.duty_cycle + result)
    /\ UNCHANGED notStir

(* a target_rpm set message: Stirrer.set_target_rpm *)
SetTargetRpm ==
    /\ stir.spc \in {"constructed", "stirring"}
    /\ stir.lifecycle # DISCONNECTED
    /\ stir.sets < MaxSets
    /\ \E value \in TargetRpms :
          stir' = set_target_rpm([handler(stir) EXCEPT !.sets = @ + 1], value)
    /\ UNCHANGED notStir

(* a duty_cycle set message: Stirrer.set_duty_cycle *)
SetDutyCycle ==
    /\ stir.spc \in {"constructed", "stirring"}
    /\ stir.lifecycle # DISCONNECTED
    /\ stir.sets < MaxSets
    /\ \E value \in DutyCycleInputs :
          stir' = set_duty_cycle([handler(stir) EXCEPT !.sets = @ + 1], value)
    /\ UNCHANGED notStir

(* Stirrer.on_ready_to_sleeping, stirring.py 280-283 *)
OnReadyToSleeping ==
    /\ stir.spc \in {"constructed", "stirring"}
    /\ stir.lifecycle = READY
    /\ LET s1 == [handler(stir) EXCEPT !.previous_duty_cycle = stir.duty_cycle,
                              !.thread = IF @ = "running" THEN "paused" ELSE @,
                              !.lifecycle = SLEEPING]
       IN  stir' = stop_stirring(s1)
    /\ UNCHANGED notStir

(* Stirrer.on_sleeping_to_ready, stirring.py 285-288 *)
OnSleepingToReady ==
    /\ stir.lifecycle = SLEEPING
    /\ LET s1 == [handler(stir) EXCEPT !.duty_cycle = stir.previous_duty_cycle,
                              !.thread = IF @ = "paused" THEN "running" ELSE @,
                              !.lifecycle = READY]
       IN  stir' = [stirrer_start_stirring(s1) EXCEPT !.spc = "stirring"]
    /\ UNCHANGED notStir

(* Stirrer.on_disconnect, stirring.py 228-237 *)
StirrerOnDisconnect ==
    /\ stir.spc \in {"constructed", "stirring"}
    /\ stir.lifecycle # DISCONNECTED
    /\ LET s1 == [handler(stir) EXCEPT !.thread = "cancelled", !.lifecycle = DISCONNECTED]
       IN  stir' = [stop_stirring(s1) EXCEPT !.pwmst = "cleaned", !.spc = "disconnected"]
    /\ UNCHANGED notStir

(* no Stirrer exists in the other specifications *)
IdleStir == stir = InitStirrer

----------------------------------------------------------------------------
(* Part 5: LEDAutomation.run (automations/led/base.py 88-150).  run() is    *)
(* called by the automation's timer thread; the lifecycle state is set by   *)
(* the thread that delivers $state/set messages and by the main thread.     *)
(* Nothing synchronises the two, so one statement of run() is one step.     *)

MaxRuns == 2
MaxCounter == 4
MaxSetDurations == 2

(* duration in minutes, None when the automation is run by hand *)
AutoDurations == {NoneV, IntV(1)}
(* what execute() of the subclass does: returns an event, or raises *)
ExecuteOutcomes == {"NoEvent", "Event", "raise"}
(* payloads of duration/set and arguments of set_duration *)
SetDurations == {NoneV, IntV(1), IntV(2)}

InitAuto ==
    [ apc |-> "new", state |-> DISCONNECTED, duration |-> NoneV, run_thread |-> "none",
      rpc |-> "idle", counter |-> 0, event |-> "unset", latest_event |-> "None",
      returned |-> "unset", executed |-> FALSE, raised |-> FALSE,
      state_at_execute |-> "none", runs |-> 0, log |-> <<>>,
      timers |-> <<>>, run_thread_ix |-> 0, thread_pending |-> FALSE,
      set_durations |-> 0 ]

(* counter > (self.duration * 60 / 4) / 5, base.py 128 *)
waited_too_long(duration, counter) ==
    /\ ~IsNone(duration) /\ duration.n # 0
    /\ counter * 5 * 4 > duration.n * 60

(* RepeatedTimer(interval, function).start() and RepeatedTimer.cancel() of    *)
(* pioreactor.utils.timing: timers lists every RepeatedTimer ever started,   *)
(* with its interval in seconds; a cancelled one calls run() no more         *)
repeated_timer_start(a, interval) ==
    [a EXCEPT !.timers = Append(@, [interval |-> interval, active |-> TRUE]),
              !.run_thread = "repeated_timer",
              !.run_thread_ix = Len(a.timers) + 1]

(* with suppress(AttributeError): self.run_thread.cancel(), base.py 74-75 and *)
(* 186-187: a Thread has no cancel()                                          *)
run_thread_cancel(a) ==
    IF a.run_thread_ix \in DOMAIN a.timers
    THEN [a EXCEPT !.timers[a.run_thread_ix].active = FALSE]
    ELSE a

(* LEDAutomation.set_duration, base.py 70-86 *)
set_duration(a, duration) ==
    IF ~IsNone(duration) /\ duration.n # 0
    THEN repeated_timer_start(run_thread_cancel([a EXCEPT !.duration = duration]),
                              duration.n * 60)
    ELSE [a EXCEPT !.duration = NoneV, !.run_thread = "thread",
                   !.run_thread_ix = 0, !.thread_pending = TRUE]

(* base.py 141-146: try: event = self.execute() except Exception: ErrorOccurred *)
run_execute_propagates(a, outcome) ==
    IF outcome = "raise"
    THEN [a EXCEPT !.raised = TRUE, !.rpc = "idle", !.returned = "raised",
                   !.run_thread = "dead", !.runs = @ + 1, !.log = Append(@, "raised")]
    ELSE [a EXCEPT !.event = outcome, !.rpc = "finish"]

run_execute(a, outcome) ==
    IF outcome = "raise"
    THEN [a EXCEPT !.event = "ErrorOccurred", !.raised = TRUE, !.rpc = "finish"]
    ELSE [a EXCEPT !.event = outcome, !.rpc = "finish"]

(* LEDAutomation.__init__, base.py 51-68 *)
AutomationInit ==
    /\ auto.apc = "new"
    /\ \E duration \in AutoDurations :
          auto' = set_duration([auto EXCEPT !.apc = "alive", !.state = READY], duration)
    /\ UNCHANGED notAuto

(* the RepeatedTimer (every duration minutes) or the Thread (once) calls run() *)
RunCall ==
    /\ auto.apc = "alive"
    /\ auto.rpc = "idle"
    /\ auto.runs < MaxRuns
    /\ \/ \E i \in DOMAIN auto.timers : auto.timers[i].active
       \/ auto.thread_pending
    /\ \E by_thread \in BOOLEAN :
          /\ by_thread => auto.thread_pending
          /\ ~by_thread => \E i \in DOMAIN auto.timers : auto.timers[i].active
          /\ auto' = [auto EXCEPT !.rpc = "entered", !.counter = 0, !.event = "unset",
                                  !.executed = FALSE, !.raised = FALSE,
                                  !.thread_pending = IF by_thread THEN FALSE ELSE @]
    /\ UNCHANGED notAuto

(* base.py 90-93, 120, 140: the tests of self.state at the top of run() *)
RunCheck ==
    /\ auto.rpc = "entered"
    /\ auto' = IF auto.state = DISCONNECTED
               THEN [auto EXCEPT !.rpc = "idle", !.returned = "None", !.runs = @ + 1,
                                 !.log = Append(@, "None")]
               ELSE IF auto.state # READY
               THEN [auto EXCEPT !.rpc = "loop", !.counter = 0]
               ELSE [auto EXCEPT !.rpc = "execute"]
    /\ UNCHANGED notAuto

(* base.py 124 and 133-134: while self.state != self.READY ... else: return self.run() *)
RunLoopTest ==
    /\ auto.rpc = "loop"
    /\ auto' = IF auto.state # READY
               THEN [auto EXCEPT !.rpc = "sleep"]
               ELSE [auto EXCEPT !.rpc = "entered"]
    /\ UNCHANGED notAuto

(* base.py 125-132: time.sleep(5); counter += 1; the 25% test *)
RunLoopSleep ==
    /\ auto.rpc = "sleep"
    /\ auto.counter < MaxCounter
    /\ LET a1 == [auto EXCEPT !.counter = @ + 1]
       IN  auto' = IF waited_too_long(a1.duration, a1.counter)
                   THEN [a1 EXCEPT !.event = "NoEvent", !.rpc = "finish"]
                   ELSE [a1 EXCEPT !.rpc = "loop"]
    /\ UNCHANGED notAuto

(* base.py 141-146: the call of execute() *)
RunExecute ==
    /\ auto.rpc = "execute"
    /\ \E outcome \in ExecuteOutcomes :
          auto' = run_execute([auto EXCEPT !.executed = TRUE,
                                           !.state_at_execute = auto.state], outcome)
    /\ UNCHANGED notAuto

(* base.py 148-150: self.latest_event = event; return event *)
RunFinish ==
    /\ auto.rpc = "finish"
    /\ auto' = [auto EXCEPT !.latest_event = auto.event, !.returned = auto.event,
                            !.rpc = "idle", !.runs = @ + 1,
                            !.log = Append(@, auto.event)]
    /\ UNCHANGED notAuto

(* the job's state is set from another thread; on_disconnect (base.py        *)
(* 182-195) cancels run_thread, which only a RepeatedTimer can be            *)
AutomationSetState ==
    /\ auto.apc = "alive"
    /\ auto.state # DISCONNECTED
    /\ \E new_state \in {READY, SLEEPING, DISCONNECTED} \ {auto.state} :
          LET a1 == IF new_state = DISCONNECTED THEN run_thread_cancel(auto) ELSE auto
          IN  auto' = [a1 EXCEPT !.state = new_state,
                                 !.run_thread = IF new_state = DISCONNECTED /\ @ = "repeated_timer"
                                                THEN "cancelled" ELSE @]
    /\ UNCHANGED notAuto

(* a duration/set message, or a call of set_duration by the subclass *)
AutomationSetDuration ==
    /\ auto.apc = "alive"
    /\ auto.state # DISCONNECTED
    /\ auto.set_durations < MaxSetDurations
    /\ \E duration \in SetDurations :
          auto' = set_duration([auto EXCEPT !.set_durations = @ + 1], duration)
    /\ UNCHANGED notAuto

(* no automation exists in the other specifications *)
IdleAuto == auto = InitAuto

----------------------------------------------------------------------------
(* Part 6: the control algorithms of morbidostat/long_running/monitoring.py. *)
(* Optical densities and growth rates are in hundredths, volumes in whole    *)
(* millilitres; the alt-media fraction is the exact quotient num/den (the    *)
(* code keeps it as a float).                                                *)

MaxAlgoRuns == 3

(* monitoring.py 111: vial_volume = 12 *)
vial_volume == 12

AlgoModes == {"silent", "turbidostat", "morbidostat"}
(* --target_od and --volume, monitoring.py 141-144 *)
TargetOds == {100}
Volumes == {1}
(* media_delta and alt_media_delta of a direct call of update_alt_media_fraction *)
Deltas == {0, 1, 6, 12, 13}
(* what morbidostat/<unit>/od_filtered and .../growth_rate hold at a run *)
OdReadings == {95, 99, 100, 101, 103, 105}
RateReadings == {0, 1}

(* ControlAlgorithm's class attributes, monitoring.py 26-29, and            *)
(* Morbidostat.__init__, monitoring.py 80-84                                *)
InitAlgo ==
    [ mode |-> "none", target_od |-> 0, volume |-> 0,
      latest_alt_media_fraction |-> [num |-> 0, den |-> 1],
      latest_rate |-> 0, latest_od |-> 0, previous_rate |-> 0, previous_od |-> 0,
      runs |-> 0, pumped |-> <<>>, logged |-> "",
      \* history of the fraction, for the properties
      fraction_before |-> [num |-> 0, den |-> 1], media_delta |-> 0, alt_media_delta |-> 0,
      updates |-> 0, within_vial |-> TRUE ]

PumpCall(pump, ml) == [pump |-> pump, ml |-> ml]

(* ControlAlgorithm.set_OD_measurements, monitoring.py 36-41 *)
set_OD_measurements(g, rate, od) ==
    [g EXCEPT !.previous_rate = g.latest_rate, !.previous_od = g.latest_od,
              !.latest_rate = rate, !.latest_od = od]

(* Turbidostat.execute, monitoring.py 67-76 *)
turbidostat_execute(g) ==
    IF g.latest_od > g.target_od /\ g.latest_rate > 0
    THEN [g EXCEPT !.logged = "Monitor triggered dilution event.",
                   !.pumped = <<PumpCall("remove_waste", g.volume),
                                PumpCall("add_media", g.volume)>>]
    ELSE [g EXCEPT !.logged = "Monitor triggered no event.", !.pumped = <<>>]

(* what the properties remember of a call of update_alt_media_fraction *)
RememberUpdate(g, media_delta, alt_media_delta) ==
    [g EXCEPT !.fraction_before = g.latest_alt_media_fraction,
              !.media_delta = media_delta, !.alt_media_delta = alt_media_delta,
              !.updates = @ + 1,
              !.within_vial = @ /\ media_delta + alt_media_delta <= vial_volume]

update_alt_media_fraction_without_removal(g, media_delta, alt_media_delta) ==
    LET f == g.latest_alt_media_fraction
    IN  [RememberUpdate(g, media_delta, alt_media_delta)
            EXCEPT !.latest_alt_media_fraction =
                       [num |-> f.num * vial_volume + alt_media_delta * f.den,
                        den |-> f.den * vial_volume]]

(* Morbidostat.update_alt_media_fraction, monitoring.py 109-132:            *)
(* alt_media_ml = V * f * (1 - total_delta / V) + alt_media_delta, over V   *)
update_alt_media_fraction(g, media_delta, alt_media_delta) ==
    LET total_delta == media_delta + alt_media_delta
        f == g.latest_alt_media_fraction
    IN  [RememberUpdate(g, media_delta, alt_media_delta)
            EXCEPT !.latest_alt_media_fraction =
                       [num |-> f.num * (vial_volume - total_delta)
                                    + alt_media_delta * f.den,
                        den |-> f.den * vial_volume]]

(* Morbidostat.execute, monitoring.py 86-107 *)
morbidostat_execute(g) ==
    IF g.latest_od > g.target_od /\ g.latest_od > g.previous_od
    THEN update_alt_media_fraction(
             [g EXCEPT !.logged = "Monitor triggered alt media event.",
                       !.pumped = <<PumpCall("remove_waste", g.volume),
                                    PumpCall("add_alt_media", g.volume)>>],
             0, g.volume)
    ELSE update_alt_media_fraction(
             [g EXCEPT !.logged = "Monitor triggered dilution event.",
                       !.pumped = <<PumpCall("remove_waste", g.volume),
                                    PumpCall("add_media", g.volume)>>],
             g.volume, 0)

(* Silent.execute, monitoring.py 53-54 *)
silent_execute(g) == g

(* monitoring(), monitoring.py 145-158: the algorithm of the chosen mode *)
AlgoInit ==
    /\ algo.mode = "none"
    /\ \E mode \in AlgoModes, target_od \in TargetOds, volume \in Volumes :
          algo' = [algo EXCEPT !.mode = mode, !.target_od = target_od, !.volume = volume]
    /\ UNCHANGED notAlgo

(* ControlAlgorithm.run of a Silent, monitoring.py 31-34: Silent.__init__   *)
(* (50-51) sets no unit, so line 39 raises AttributeError after line 37     *)
(* and execute() is not reached                                             *)
SilentRun ==
    /\ algo.mode = "silent"
    /\ algo.runs < MaxAlgoRuns
    /\ algo' = [algo EXCEPT !.previous_rate = algo.latest_rate,
                            !.previous_od = algo.latest_od,
                            !.logged = "AttributeError", !.runs = @ + 1]
    /\ UNCHANGED notAlgo

(* ControlAlgorithm.run of a Turbidostat, monitoring.py 31-34 *)
TurbidostatRun ==
    /\ algo.mode = "turbidostat"
    /\ algo.runs < MaxAlgoRuns
    /\ \E rate \in RateReadings, od \in OdReadings :
          algo' = [turbidostat_execute(set_OD_measurements(algo, rate, od))
                      EXCEPT !.runs = @ + 1]
    /\ UNCHANGED notAlgo

(* ControlAlgorithm.run of a Morbidostat, monitoring.py 31-34 *)
MorbidostatRun ==
    /\ algo.mode = "morbidostat"
    /\ algo.runs < MaxAlgoRuns
    /\ \E rate \in RateReadings, od \in OdReadings :
          algo' = [morbidostat_execute(set_OD_measurements(algo, rate, od))
                      EXCEPT !.runs = @ + 1]
    /\ UNCHANGED notAlgo

(* a call of Morbidostat.update_alt_media_fraction, monitoring.py 109-132 *)
UpdateAltMediaFraction ==
    /\ algo.mode = "morbidostat"
    /\ algo.runs < MaxAlgoRuns
    /\ \E media_delta \in Deltas, alt_media_delta \in Deltas :
          algo' = [update_alt_media_fraction(algo, media_delta, alt_media_delta)
                      EXCEPT !.runs = @ + 1]
    /\ UNCHANGED notAlgo

(* no control algorithm exists in the other specifications *)
IdleAlgo == algo = InitAlgo

----------------------------------------------------------------------------
(* Part 7: pubsub.py (subscribe, subscribe_and_callback) and the wrapped    *)
(* callbacks of BackgroundJob.subscribe_and_callback, base.py 185-238        *)

(* messages the broker sends on one subscription *)
MaxMsgs == 3

(* max_msgs of pubsub.subscribe_and_callback: None (0 here, both falsy at 168) or 2 *)
MaxMsgsInputs == {0, 2}

InitCb ==
    [ kind |-> "none", suppress_exceptions |-> FALSE, allow_retained |-> TRUE,
      timeout |-> FALSE, max_msgs |-> 0, count |-> 0,
      loop |-> "none",       \* the client's network loop: none, running, stopped, dead
      \* history, for the properties
      arrived |-> 0, called |-> 0, raised |-> 0, logged |-> 0, undelivered |-> 0 ]

(* The client's dispatch of on_message.  The job's sub_client has           *)
(* suppress_exceptions = True (base.py 128-129: "we catch exceptions and    *)
(* report them in our software"), so what the wrapper re-raises is dropped  *)
(* and the loop goes on; the client of pubsub.py 172 keeps the default, and *)
(* what the wrapper re-raises leaves the thread of loop_start (180), which  *)
(* ends.                                                                    *)
handle_on_message(c, reraised) ==
    IF reraised /\ ~c.suppress_exceptions THEN [c EXCEPT !.loop = "dead"] ELSE c

(* wrap_callback of BackgroundJob.subscribe_and_callback, base.py 214-225 *)
job_callback(c, retain, raises) ==
    IF ~c.allow_retained /\ retain THEN c
    ELSE IF raises
         THEN handle_on_message([c EXCEPT !.called = @ + 1, !.raised = @ + 1,
                                          !.logged = @ + 1], TRUE)
         ELSE [c EXCEPT !.called = @ + 1]

(* wrap_callback of pubsub.subscribe_and_callback, pubsub.py 142-160 *)
pubsub_callback(c, raises) ==
    LET c1 == IF c.max_msgs # 0 THEN [c EXCEPT !.count = @ + 1] ELSE c
    IN  IF c.max_msgs # 0 /\ c1.count > c.max_msgs
        THEN [c1 EXCEPT !.loop = "stopped"]
        ELSE IF raises
             THEN handle_on_message([c1 EXCEPT !.called = @ + 1, !.raised = @ + 1,
                                               !.logged = @ + 1], TRUE)
             ELSE [c1 EXCEPT !.called = @ + 1]

(* BackgroundJob.subscribe_and_callback on the job's sub_client, base.py 185-238 *)
JobSubscribeAndCallback ==
    /\ cb.kind = "none"
    /\ \E allow_retained \in BOOLEAN :
          cb' = [cb EXCEPT !.kind = "job", !.suppress_exceptions = TRUE,
                           !.allow_retained = allow_retained, !.loop = "running"]
    /\ UNCHANGED sub
    /\ UNCHANGED notPubsub

(* pubsub.subscribe_and_callback, pubsub.py 109-189 *)
PubsubSubscribeAndCallback ==
    /\ cb.kind = "none"
    /\ \E timeout \in BOOLEAN, max_msgs \in MaxMsgsInputs :
          cb' = [cb EXCEPT !.kind = "pubsub", !.suppress_exceptions = FALSE,
                           !.timeout = timeout, !.max_msgs = max_msgs,
                           !.loop = "running"]
    /\ UNCHANGED sub
    /\ UNCHANGED notPubsub

(* The broker sends a message of the subscription while the loop runs: the  *)
(* wrapped callback is called with it.                                      *)
CallbackMessage ==
    /\ cb.loop = "running"
    /\ cb.arrived < MaxMsgs
    /\ \E retain \in BOOLEAN, raises \in BOOLEAN :
          LET c == [cb EXCEPT !.arrived = @ + 1]
          IN  cb' = IF cb.kind = "job" THEN job_callback(c, retain, raises)
                    ELSE pubsub_callback(c, raises)
    /\ UNCHANGED sub
    /\ UNCHANGED notPubsub

(* The broker sends a message of the subscription and no loop reads it *)
CallbackMessageUnread ==
    /\ cb.loop \in {"dead", "stopped"}
    /\ cb.arrived < MaxMsgs
    /\ cb' = [cb EXCEPT !.arrived = @ + 1,
                        !.undelivered = IF cb.loop = "dead" THEN @ + 1 ELSE @]
    /\ UNCHANGED sub
    /\ UNCHANGED notPubsub

(* the Timer of pubsub.py 182-187: stop_and_disconnect *)
CallbackTimeout ==
    /\ cb.kind = "pubsub" /\ cb.timeout
    /\ cb.loop \in {"running", "dead"}
    /\ cb' = [cb EXCEPT !.loop = "stopped"]
    /\ UNCHANGED sub
    /\ UNCHANGED notPubsub

(* a call of pubsub.subscribe, pubsub.py 52-106; messages are numbered in   *)
(* the order the broker sends them, 0 is None                               *)
InitSub ==
    [ spc |-> "idle", timeout |-> FALSE, retry_count |-> 1,
      timer |-> "none",      \* threading.Timer of 84-85: none, waiting, fired
      messages |-> 0,        \* userdata["messages"]
      result |-> "unset",    \* what the call returned, or the exception it raised
      \* history, for the properties
      arrived |-> 0, delivered |-> <<>> ]

on_message_without_disconnect(s) ==
    [s EXCEPT !.arrived = @ + 1, !.messages = s.arrived + 1,
              !.delivered = Append(@, s.arrived + 1)]

(* on_message of subscribe, pubsub.py 68-71 *)
on_message(s) ==
    [s EXCEPT !.arrived = @ + 1, !.messages = s.arrived + 1,
              !.delivered = Append(@, s.arrived + 1), !.spc = "disconnected"]

(* pubsub.py 52-60 *)
SubscribeCall ==
    /\ sub.spc = "idle"
    /\ \E timeout \in BOOLEAN :
          sub' = [sub EXCEPT !.spc = "connecting", !.timeout = timeout]
    /\ UNCHANGED cb
    /\ UNCHANGED notPubsub

(* One round of the loop of pubsub.py 61-106 up to loop_forever: connect    *)
(* (82) succeeds and the timer is started (84-85), or it raises, is caught  *)
(* (91), counted (102) and, at the count of retries, answered with          *)
(* ConnectionRefusedError (104-106).                                        *)
SubscribeConnect ==
    /\ sub.spc = "connecting"
    /\ \E connected \in BOOLEAN :
          sub' = IF connected
                 THEN [sub EXCEPT !.spc = "looping",
                                  !.timer = IF sub.timeout THEN "waiting" ELSE "none"]
                 ELSE IF sub.retry_count + 1 = retries
                      THEN [sub EXCEPT !.retry_count = @ + 1, !.spc = "raised",
                                       !.result = "ConnectionRefusedError"]
                      ELSE [sub EXCEPT !.retry_count = @ + 1]
    /\ UNCHANGED cb
    /\ UNCHANGED notPubsub

(* the broker sends a message on the topics while loop_forever (87) runs *)
SubscribeOnMessage ==
    /\ sub.spc = "looping"
    /\ sub.arrived < MaxMsgs
    /\ sub' = on_message(sub)
    /\ UNCHANGED cb
    /\ UNCHANGED notPubsub

(* the broker sends a message on the topics after the client has disconnected *)
SubscribeMessageUnread ==
    /\ sub.spc \in {"disconnected", "returned", "raised"}
    /\ sub.arrived < MaxMsgs
    /\ sub' = [sub EXCEPT !.arrived = @ + 1]
    /\ UNCHANGED cb
    /\ UNCHANGED notPubsub

(* the timer of 84-85 fires: client.disconnect() *)
SubscribeTimeout ==
    /\ sub.timer = "waiting"
    /\ sub' = [sub EXCEPT !.timer = "fired",
                          !.spc = IF @ = "looping" THEN "disconnected" ELSE @]
    /\ UNCHANGED cb
    /\ UNCHANGED notPubsub

(* loop_forever returns once the client is disconnected: 89 *)
SubscribeReturn ==
    /\ sub.spc = "disconnected"
    /\ sub' = [sub EXCEPT !.spc = "returned", !.result = sub.messages]
    /\ UNCHANGED cb
    /\ UNCHANGED notPubsub

(* no client of pubsub.py exists in the other specifications *)
IdlePubsub == cb = InitCb /\ sub = InitSub

----------------------------------------------------------------------------
(* Part 8: Monitor (background_jobs/monitor.py) on the BackgroundJob of      *)
(* base.py: its construction and check_state_of_jobs_on_machine.  The        *)
(* callback of the check runs in the subscriber's thread while on_ready      *)
(* sleeps (monitor.py 149), so one delivered message is one step.            *)

MaxChecks == 1

(* the other jobs of this unit in the latest experiment *)
Jobs == {"stirring", "od_reading"}
(* the retained message on a job's $state topic, "none" when there is none *)
RetainedStates == {"none", INIT, READY, SLEEPING, DISCONNECTED, LOST}

InitMon ==
    [ mpc |-> "new",            \* new, idle, checking (inside on_ready's sleep)
      state |-> DISCONNECTED,
      gpio |-> FALSE,           \* self.GPIO is assigned (monitor.py 72)
      retained |-> [j \in Jobs |-> "none"],
      running |-> {},           \* the job processes of this machine
      whats_running |-> {},     \* pio_jobs_running() as read at monitor.py 129
      inbox |-> {},             \* $state messages on their way to the callback
      logged |-> <<>>,          \* what ready() caught and logged (base.py 292-293)
      \* history, for the properties
      startup_retained |-> [j \in Jobs |-> "none"], startup_running |-> {},
      lost_published |-> {}, checks |-> 0,
      lost_while_running |-> {} ]  \* jobs marked lost while their process ran

StateMsg(job, payload) == [job |-> job, payload |-> payload]

(* check_against_processes_running, monitor.py 131-141 *)
check_against_processes_running(m, msg) ==
    IF msg.payload \in {READY, INIT, SLEEPING} /\ msg.job \notin m.whats_running
    THEN [m EXCEPT !.retained[msg.job] = LOST, !.lost_published = @ \cup {msg.job},
                   !.lost_while_running = @ \cup ({msg.job} \cap m.running)]
    ELSE m

(* check_state_of_jobs_on_machine up to its sleep, monitor.py 128-149: the  *)
(* broker sends the retained $state of every job of the experiment          *)
check_state_of_jobs_on_machine(m) ==
    [m EXCEPT !.whats_running = m.running,
              !.inbox = {StateMsg(j, m.retained[j]) : j \in {k \in Jobs : m.retained[k] # "none"}},
              !.mpc = "checking"]

(* Monitor.on_ready, monitor.py 159-165.  flicker_led_response_okay (307)   *)
(* starts with led_on (173-174), which reads self.GPIO: AttributeError      *)
(* while setup_GPIO (60, 72) has not run.                                    *)
on_ready(m) ==
    IF ~m.gpio THEN [m EXCEPT !.logged = Append(@, "AttributeError")]
    ELSE check_state_of_jobs_on_machine(m)

(* BackgroundJob.ready, base.py 289-295, when on_ready has returned or raised *)
monitor_ready(m) == [m EXCEPT !.state = READY, !.mpc = "idle"]

(* Monitor.__init__, monitor.py 49-62: BackgroundJob.__init__ ends with     *)
(* set_state(READY) (base.py 86), which runs on_ready; setup_GPIO comes     *)
(* after it (60).                                                           *)
MonitorInit ==
    /\ mon.mpc = "new"
    /\ \E on_broker \in [Jobs -> RetainedStates], processes \in SUBSET Jobs :
          LET m0 == [mon EXCEPT !.retained = on_broker, !.running = processes,
                                !.startup_retained = on_broker,
                                !.startup_running = processes]
              m1 == on_ready(m0)
          IN  /\ m1.mpc # "checking"
              /\ mon' = [monitor_ready(m1) EXCEPT !.gpio = TRUE]
    /\ UNCHANGED notMon

(* set_state(SLEEPING) on the running monitor, base.py 297-303 *)
MonitorSleeping ==
    /\ mon.mpc = "idle" /\ mon.state = READY
    /\ mon' = [mon EXCEPT !.state = SLEEPING]
    /\ UNCHANGED notMon

(* set_state(READY) on the running monitor: on_ready runs up to its sleep *)
MonitorReady ==
    /\ mon.mpc = "idle" /\ mon.state = SLEEPING
    /\ mon.checks < MaxChecks
    /\ mon' = on_ready(mon)
    /\ UNCHANGED notMon

(* one message reaches check_against_processes_running *)
CheckCallback ==
    /\ mon.mpc = "checking"
    /\ \E msg \in mon.inbox :
          mon' = check_against_processes_running([mon EXCEPT !.inbox = @ \ {msg}], msg)
    /\ UNCHANGED notMon

(* another job is started on the machine and publishes $state = init; the   *)
(* subscription of a check in progress receives it                           *)
JobStarts ==
    /\ mon.mpc # "new"
    /\ \E job \in Jobs \ mon.running :
          mon' = [mon EXCEPT !.running = @ \cup {job}, !.retained[job] = INIT,
                             !.inbox = IF mon.mpc = "checking"
                                       THEN @ \cup {StateMsg(job, INIT)} ELSE @]
    /\ UNCHANGED notMon

(* the sleep is over: unsubscribe (monitor.py 152-157), on_ready returns    *)
(* (165) and ready() assigns the state                                      *)
CheckEnd ==
    /\ mon.mpc = "checking"
    /\ mon.inbox = {}
    /\ mon' = [monitor_ready(mon) EXCEPT !.checks = @ + 1]
    /\ UNCHANGED notMon

(* no Monitor exists in the other specifications *)
IdleMon == mon = InitMon

----------------------------------------------------------------------------
(* Part 9: ODReader.take_reading (morbidostat/background_jobs/od_reading.py) *)

MaxReadings == 3

(* the labels of od_channels, in the order of the dict *)
OdChannels == <<"135/A", "90/A">>
(* what a step of the try block raises: an I2C failure is an OSError *)
ReadingFailures == {"none", "OSError", "ValueError"}
(* counter as `every` passes it; None is the default of the parameter *)
Counters == {NoneV, IntV(0), IntV(1)}

InitOdReader ==
    [ pause |-> 0, calls |-> 0,
      published |-> <<>>,     \* topics of the last call's publishes, in order
      slept |-> 0,            \* seconds of time.sleep of the last call's handler
      raised_in_try |-> "none", result |-> "unset",
      history |-> <<>> ]      \* raised_in_try of the earlier calls

(* publish of morbidostat/pubsub.py, which is not part of the sources: it   *)
(* retries until the message is delivered and returns                        *)
od_publish(o, topic) == [o EXCEPT !.published = Append(@, topic)]

RECURSIVE read_channels(_, _, _, _)
(* the loop of od_reading.py 87-90: channel `failing` raises on its read *)
read_channels(o, i, failing, exc) ==
    IF i > Len(OdChannels) THEN o
    ELSE IF i = failing THEN [o EXCEPT !.raised_in_try = exc]
    ELSE read_channels(od_publish(o, "od_raw/" \o OdChannels[i]), i + 1, failing, exc)

(* the try block of take_reading, od_reading.py 85-108 *)
try_block(o, counter, failing, exc, gain_changes) ==
    LET o1 == read_channels(o, 1, failing, exc)
    IN  IF o1.raised_in_try # "none" THEN o1
        ELSE LET o2 == od_publish(o1, "od_raw_batched")
             IN  IF IsNone(counter) THEN [o2 EXCEPT !.raised_in_try = "TypeError"]
                 ELSE IF counter.n % 20 = 0 /\ gain_changes THEN od_publish(o2, "log")
                 ELSE o2

take_reading_swallows_all(o, counter, failing, exc, gain_changes) ==
    LET o1 == try_block([o EXCEPT !.published = <<>>, !.slept = 0, !.raised_in_try = "none",
                                  !.history = Append(@, o.raised_in_try)],
                        counter, failing, exc, gain_changes)
    IN  IF o1.raised_in_try = "none" THEN [o1 EXCEPT !.result = "None"]
        ELSE [od_publish(o1, "error_log") EXCEPT !.slept = 5, !.result = "None"]

(* ODReader.take_reading, od_reading.py 81-121 *)
take_reading(o, counter, failing, exc, gain_changes) ==
    LET o1 == try_block([o EXCEPT !.published = <<>>, !.slept = 0, !.raised_in_try = "none",
                                  !.history = Append(@, o.raised_in_try)],
                        counter, failing, exc, gain_changes)
    IN  CASE o1.raised_in_try = "none" -> [o1 EXCEPT !.result = "None"]
          [] o1.raised_in_try = "OSError" ->
                [od_publish(o1, "error_log") EXCEPT !.slept = 5, !.result = "None"]
          [] OTHER ->
                [od_publish(o1, "error_log") EXCEPT !.result = o1.raised_in_try]

(* a call of take_reading while the reader is not paused (82-83) *)
TakeReading ==
    /\ odr.pause = 0
    /\ odr.calls < MaxReadings
    /\ \E counter \in Counters, failing \in 0..Len(OdChannels),
          exc \in ReadingFailures \ {"none"}, gain_changes \in BOOLEAN :
          odr' = [take_reading(odr, counter, failing, exc, gain_changes)
                     EXCEPT !.calls = @ + 1]
    /\ UNCHANGED notOd

(* ODReader.set_pause, od_reading.py 123-125 *)
SetPause ==
    /\ \E value \in {0, 1} :
          /\ value # odr.pause
          /\ odr' = [odr EXCEPT !.pause = value]
    /\ UNCHANGED notOd

(* no ODReader exists in the other specifications *)
IdleOd == odr = InitOdReader

----------------------------------------------------------------------------
(* Part 10: GrowthRateCalculator, its od_raw_batched listeners and its
   handler update_state_from_observation (growth_rate_calculating.py).
   gr is the calculator once __init__ has returned: READY, one EKF, one
   listener client per topic. *)

MaxBatches == 3
MaxReconnects == 1

\* the tracked angles of line 84, in the order of json_to_sorted_dict
Angles == <<"90/A", "135/A">>

GrPub(topic, version, retain) ==
    [topic |-> topic, payload |-> version, retain |-> retain]

\* listeners : pubsub clients subscribed to od_raw_batched (one per call of
\*             start_passive_listeners, lines 189-196)
\* pending   : batches delivered by the broker to a listener client and not
\*             yet handled, one entry per listener
\* ekf_state : version of ekf.state_ / covariance_ (one more per ekf.update)
\* out       : everything the calculator has published
\* applied, growth : per batch, EKF updates done and growth_rate publishes
InitGrowth ==
    [state |-> READY, listeners |-> 1, pending |-> <<>>, batches |-> 0,
     reconnects |-> 0, ekf_state |-> 0, out |-> <<>>,
     applied |-> [b \in 1..(MaxBatches + 1) |-> 0],
     growth |-> [b \in 1..(MaxBatches + 1) |-> 0],
     handled_ready |-> 0, handled_not_ready |-> 0]

\* lines 186-204: every call creates a new client with pubsub's
\* subscribe_and_callback (pubsub.py 172-180) and appends it to pubsub_clients
growth_start_passive_listeners(g) == [g EXCEPT !.listeners = @ + 1]

\* base.py 134-138, the on_connect handler of the job's sub_client
growth_reconnect_protocol(g) ==
    growth_start_passive_listeners([g EXCEPT !.reconnects = @ + 1])

\* lines 163-180 without the guard of lines 161-162
update_state_from_observation_any_state(g, b) ==
    LET version == g.ekf_state + 1 IN
    [g EXCEPT !.ekf_state = version,
              !.out = @ \o <<GrPub("growth_rate", version, TRUE)>>
                        \o [i \in 1..Len(Angles) |->
                              GrPub(Angles[i], version, FALSE)],
              !.applied[b] = @ + 1,
              !.growth[b] = @ + 1,
              !.handled_ready = 1]

\* lines 160-184
update_state_from_observation(g, b) ==
    IF g.state # READY
    THEN [g EXCEPT !.handled_not_ready = 1]
    ELSE LET version == g.ekf_state + 1 IN
         [g EXCEPT !.ekf_state = version,
                   !.out = @ \o <<GrPub("growth_rate", version, TRUE)>>
                             \o [i \in 1..Len(Angles) |->
                                   GrPub(Angles[i], version, FALSE)],
                   !.applied[b] = @ + 1,
                   !.growth[b] = @ + 1,
                   !.handled_ready = 1]

\* the job's sub_client reconnects to the broker
GrReconnect ==
    /\ gr.state # DISCONNECTED
    /\ gr.reconnects < MaxReconnects
    /\ gr' = growth_reconnect_protocol(gr)
    /\ UNCHANGED notGr

\* ODReader publishes a batch; the broker hands it to every listener client
OdRawBatched ==
    /\ gr.state # DISCONNECTED
    /\ gr.batches < MaxBatches
    /\ gr' = [gr EXCEPT !.batches = @ + 1,
                        !.pending = @ \o [i \in 1..gr.listeners |-> gr.batches + 1]]
    /\ UNCHANGED notGr

\* a listener client's thread calls the handler with its next batch
UpdateStateFromObservation ==
    /\ gr.pending # <<>>
    /\ gr' = update_state_from_observation(
                 [gr EXCEPT !.pending = Tail(@)], Head(gr.pending))
    /\ UNCHANGED notGr

\* base.py 289-303, over $state/set
GrSetState ==
    /\ gr.state \in {READY, SLEEPING}
    /\ \E s \in {READY, SLEEPING} :
         /\ s # gr.state
         /\ gr' = [gr EXCEPT !.state = s]
    /\ UNCHANGED notGr

\* base.py 305-321: every client of pubsub_clients is stopped
GrDisconnected ==
    /\ gr.state \in {READY, SLEEPING}
    /\ gr' = [gr EXCEPT !.state = DISCONNECTED, !.listeners = 0,
                        !.pending = <<>>]
    /\ UNCHANGED notGr

(* no GrowthRateCalculator handles batches in the other specifications *)
IdleGr == gr = InitGrowth

----------------------------------------------------------------------------
(* Part 11: Monitor.self_checks (background_jobs/monitor.py 81-106, 253-305,
   319-327), called by the RepeatedTimer of monitor.py 55-57 every 12 hours,
   the first time at once and in the timer's thread, while __init__ goes on
   to setup_GPIO (60). *)

MaxSelfChecks == 2

\* monitor.py 29-32
MQTT_CLIENT_NOT_CONNECTED_TO_LEADER_ERROR_CODE == 2
DISK_IS_ALMOST_FULL_ERROR_CODE == 3

\* round(psutil.disk_usage("/").percent), monitor.py 259
DiskUsages == {50, 80, 81}

\* spc       : idle, power, stats, role, flicker_on, flicker_off, flicker_sleep
\* led       : the level of LED_PIN
\* published : computer_statistics was published by the current (last) run
InitSelfChecks ==
    [spc |-> "idle", testing |-> FALSE, disk |-> 0, leader |-> FALSE,
     connected |-> TRUE, gpio |-> FALSE, error_code |-> 0, blinks |-> 0,
     led |-> FALSE, published |-> FALSE, raised |-> FALSE, runs |-> 0]

\* the end of a run of self_checks: the timer waits for the next interval
self_checks_return(c) == [c EXCEPT !.spc = "idle", !.runs = @ + 1]

\* flicker_led_error_code, monitor.py 319-322, up to the first led_on (173-174),
\* which reads self.GPIO
flicker_led_error_code(c, error_code) ==
    IF ~c.gpio
    THEN self_checks_return([c EXCEPT !.raised = TRUE])
    ELSE [c EXCEPT !.error_code = error_code, !.blinks = 0, !.led = TRUE,
                   !.spc = "flicker_on"]

\* publish_self_statistics, monitor.py 253-305
publish_self_statistics(c) ==
    IF c.testing THEN [c EXCEPT !.spc = "role"]
    ELSE IF c.disk <= 80
    THEN [c EXCEPT !.published = TRUE, !.spc = "role"]
    ELSE flicker_led_error_code(c, DISK_IS_ALMOST_FULL_ERROR_CODE)

\* check_for_mqtt_connection_to_leader, monitor.py 96-106
check_for_mqtt_connection_to_leader(c) ==
    IF ~c.connected
    THEN flicker_led_error_code(c, MQTT_CLIENT_NOT_CONNECTED_TO_LEADER_ERROR_CODE)
    ELSE self_checks_return(c)

\* the RepeatedTimer calls self_checks (81); the first call may come before
\* setup_GPIO has assigned self.GPIO (72)
SelfChecksCall ==
    /\ sc.spc = "idle"
    /\ sc.runs < MaxSelfChecks
    /\ \E is_testing_env \in BOOLEAN, disk \in DiskUsages, leader \in BOOLEAN,
          connected \in BOOLEAN, gpio \in BOOLEAN :
          /\ sc.runs > 0 => gpio
          /\ sc' = [sc EXCEPT !.spc = "power", !.testing = is_testing_env, !.disk = disk,
                              !.leader = leader, !.connected = connected,
                              !.gpio = gpio, !.published = FALSE, !.raised = FALSE,
                              !.error_code = 0, !.blinks = 0]
    /\ UNCHANGED notSelf

\* check_for_power_problems, monitor.py 83 and 207-251: it only logs
CheckForPowerProblems ==
    /\ sc.spc = "power"
    /\ sc' = [sc EXCEPT !.spc = "stats"]
    /\ UNCHANGED notSelf

\* monitor.py 86
PublishSelfStatistics ==
    /\ sc.spc = "stats"
    /\ sc' = publish_self_statistics(sc)
    /\ UNCHANGED notSelf

\* monitor.py 88-94: check_for_last_backup on the leader (it only logs),
\* check_for_mqtt_connection_to_leader on a worker
RoleChecks ==
    /\ sc.spc = "role"
    /\ sc' = IF sc.leader THEN self_checks_return(sc)
             ELSE check_for_mqtt_connection_to_leader(sc)
    /\ UNCHANGED notSelf

\* monitor.py 323-324: sleep(0.5); led_off()
FlickerLedOff ==
    /\ sc.spc = "flicker_on"
    /\ sc' = [sc EXCEPT !.led = FALSE, !.blinks = @ + 1, !.spc = "flicker_off"]
    /\ UNCHANGED notSelf

\* monitor.py 325 and 321-322: sleep(0.5); the next round of the for loop
FlickerLedOn ==
    /\ sc.spc = "flicker_off"
    /\ sc' = IF sc.blinks < sc.error_code
             THEN [sc EXCEPT !.led = TRUE, !.spc = "flicker_on"]
             ELSE [sc EXCEPT !.spc = "flicker_sleep"]
    /\ UNCHANGED notSelf

\* monitor.py 327 and 320: sleep(5); while True
FlickerSleep ==
    /\ sc.spc = "flicker_sleep"
    /\ sc' = [sc EXCEPT !.blinks = 0, !.led = TRUE, !.spc = "flicker_on"]
    /\ UNCHANGED notSelf

(* no self check runs in the other specifications *)
IdleSelf == sc = InitSelfChecks

----------------------------------------------------------------------------
(* Part 12: Pico_DAC (utils/dacs.py 51-72), the 8-bit DAC of the Pico
   firmware.  Intensities are whole percents. *)

MaxDacCalls == 2

\* dacs.py 25: "float is a value between 0 and 100 inclusive"
MaxIntensity == 100
Intensities == 0..MaxIntensity
\* Pico_DAC.A .. Pico_DAC.D, dacs.py 57-60
DacChannels == 0..3

\* Python's round() of the quotient num / den (den > 0): to the nearest
\* integer, a tie to the even one
python_round(num, den) ==
    LET q == num \div den
        r == num % den
    IN  IF 2 * r < den THEN q
        ELSE IF 2 * r > den THEN q + 1
        ELSE IF q % 2 = 0 THEN q ELSE q + 1

\* written : the bytes of the last i2c.writeto, <<>> when the call wrote none
InitDac ==
    [channel |-> 0, intensity |-> 0, written |-> <<>>, raised |-> "none",
     calls |-> 0]

\* Pico_DAC.set_intensity_to, dacs.py 69-72: bytes([0x02, eight_bit]) raises
\* ValueError unless 0 <= eight_bit < 256, and then nothing is written
set_intensity_to(d, channel, intensity) ==
    LET eight_bit == python_round(intensity * 256, 100)
        d1 == [d EXCEPT !.channel = channel, !.intensity = intensity,
                        !.calls = @ + 1]
    IN  IF eight_bit \in 0..255
        THEN [d1 EXCEPT !.written = <<2, eight_bit>>, !.raised = "none"]
        ELSE [d1 EXCEPT !.written = <<>>, !.raised = "ValueError"]

\* a caller sets the intensity of a channel
SetIntensityTo ==
    /\ dac.calls < MaxDacCalls
    /\ \E channel \in DacChannels, intensity \in Intensities :
          dac' = set_intensity_to(dac, channel, intensity)
    /\ UNCHANGED notDac

\* Pico_DAC.power_down, dacs.py 66-67
PowerDown ==
    /\ dac.calls < MaxDacCalls
    /\ \E channel \in DacChannels :
          dac' = set_intensity_to(dac, channel, 0)
    /\ UNCHANGED notDac

(* no DAC is written in the other specifications *)
IdleDac == dac = InitDac

----------------------------------------------------------------------------
(* the EKF and its bus are not running in Spec and SpecPump *)
IdleEkf ==
    /\ ekf = InitEkf
    /\ grc = InitGrc

----------------------------------------------------------------------------
(* add_media is not running in Spec *)
IdlePump ==
    /\ apc = "idle"
    /\ ain = NoCall
    /\ aml = NoneV
    /\ aduration = NoneV
    /\ aretry = 1
    /\ pwm = "none"
    /\ dosing = <<>>
    /\ aresult = NoneV
    /\ atrace = <<>>

(* no job is running in SpecPump *)
IdleJob ==
    /\ pc = "new"
    /\ testing = FALSE
    /\ othersRunning = 0
    /\ state = DISCONNECTED
    /\ attrs = InitialAttrs
    /\ pubClient = "none"
    /\ subConn = "none"
    /\ subLoop = FALSE
    /\ brokerSession = FALSE
    /\ subscribed = FALSE
    /\ retained = "none"
    /\ usr1Pending = FALSE
    /\ exitCode = -1
    /\ trace = <<>>

InitJob ==
    /\ pc = "new"
    /\ testing \in BOOLEAN
    /\ othersRunning \in 0..MaxOthers
    /\ state = DISCONNECTED
    /\ attrs = InitialAttrs
    /\ pubClient = "none"
    /\ subConn = "none"
    /\ subLoop = FALSE
    /\ brokerSession = FALSE
    /\ subscribed = FALSE
    /\ retained = "none"
    /\ usr1Pending = FALSE
    /\ exitCode = -1
    /\ trace = <<>>

Init == InitJob /\ IdlePump /\ IdleEkf /\ IdleStir /\ IdleAuto /\ IdleAlgo /\ IdlePubsub /\ IdleMon /\ IdleOd /\ IdleGr /\ IdleSelf /\ IdleDac

NextJob ==
    \/ Construct1 \/ Construct2 \/ Construct3
    \/ Message \/ SetStateCall \/ Signal \/ ExitPython
    \/ Kill \/ BrokerSeesLoss \/ ClientSeesLoss \/ Reconnect

Next == NextJob

Spec == Init /\ [][Next]_vars

InitPump == IdleJob /\ IdlePump /\ IdleEkf /\ IdleStir /\ IdleAuto /\ IdleAlgo /\ IdlePubsub /\ IdleMon /\ IdleOd /\ IdleGr /\ IdleSelf /\ IdleDac

NextPump ==
    \/ AddMediaCall \/ AddMediaPrepare \/ PublishAttempt
    \/ PwmCreate \/ PwmLock \/ PwmStart \/ Sleep \/ Finally

SpecPump == InitPump /\ [][NextPump]_vars

InitEkfSpec == IdleJob /\ IdlePump /\ IdleEkf /\ IdleStir /\ IdleAuto /\ IdleAlgo /\ IdlePubsub /\ IdleMon /\ IdleOd /\ IdleGr /\ IdleSelf /\ IdleDac

NextEkf ==
    \/ ScaleCall \/ ScaleTimer \/ ForwardChange1 \/ ForwardChange2 \/ ForwardChange3
    \/ TimerFire \/ ReverseChange1 \/ ReverseChange2 \/ ReverseChange3
    \/ EkfUpdate \/ Tick
    \/ BusPublish \/ Route \/ UpdateEkfVarianceAfterIoEvent

SpecEkf == InitEkfSpec /\ [][NextEkf]_vars

InitStirSpec == IdleJob /\ IdlePump /\ IdleEkf /\ IdleStir /\ IdleAuto /\ IdleAlgo /\ IdlePubsub /\ IdleMon /\ IdleOd /\ IdleGr /\ IdleSelf /\ IdleDac

NextStir ==
    \/ StirrerInit \/ StartStirring \/ PollAndUpdateDc
    \/ SetTargetRpm \/ SetDutyCycle
    \/ OnReadyToSleeping \/ OnSleepingToReady \/ StirrerOnDisconnect

SpecStir == InitStirSpec /\ [][NextStir]_vars

InitAutoSpec == IdleJob /\ IdlePump /\ IdleEkf /\ IdleStir /\ IdleAuto /\ IdleAlgo /\ IdlePubsub /\ IdleMon /\ IdleOd /\ IdleGr /\ IdleSelf /\ IdleDac

NextAuto ==
    \/ AutomationInit \/ RunCall \/ RunCheck \/ RunLoopTest \/ RunLoopSleep
    \/ RunExecute \/ RunFinish \/ AutomationSetState \/ AutomationSetDuration

SpecAuto == InitAutoSpec /\ [][NextAuto]_vars

InitAlgoSpec == IdleJob /\ IdlePump /\ IdleEkf /\ IdleStir /\ IdleAuto /\ IdleAlgo /\ IdlePubsub /\ IdleMon /\ IdleOd /\ IdleGr /\ IdleSelf /\ IdleDac

NextAlgo ==
    \/ AlgoInit \/ SilentRun \/ TurbidostatRun \/ MorbidostatRun
    \/ UpdateAltMediaFraction

SpecAlgo == InitAlgoSpec /\ [][NextAlgo]_vars

InitPubsubSpec == IdleJob /\ IdlePump /\ IdleEkf /\ IdleStir /\ IdleAuto /\ IdleAlgo /\ IdlePubsub /\ IdleMon /\ IdleOd /\ IdleGr /\ IdleSelf /\ IdleDac

NextPubsub ==
    \/ JobSubscribeAndCallback \/ PubsubSubscribeAndCallback
    \/ CallbackMessage \/ CallbackMessageUnread \/ CallbackTimeout
    \/ SubscribeCall \/ SubscribeConnect \/ SubscribeOnMessage
    \/ SubscribeMessageUnread \/ SubscribeTimeout \/ SubscribeReturn

SpecPubsub == InitPubsubSpec /\ [][NextPubsub]_vars

InitMonSpec == IdleJob /\ IdlePump /\ IdleEkf /\ IdleStir /\ IdleAuto /\ IdleAlgo /\ IdlePubsub /\ IdleMon /\ IdleOd /\ IdleGr /\ IdleSelf /\ IdleDac

NextMon ==
    \/ MonitorInit \/ MonitorSleeping \/ MonitorReady
    \/ CheckCallback \/ JobStarts \/ CheckEnd

SpecMon == InitMonSpec /\ [][NextMon]_vars

InitOdSpec ==
    IdleJob /\ IdlePump /\ IdleEkf /\ IdleStir /\ IdleAuto /\ IdleAlgo /\ IdlePubsub /\ IdleMon /\ IdleOd /\ IdleGr /\ IdleSelf /\ IdleDac

NextOd == TakeReading \/ SetPause

SpecOd == InitOdSpec /\ [][NextOd]_vars

InitGrSpec ==
    IdleJob /\ IdlePump /\ IdleEkf /\ IdleStir /\ IdleAuto /\ IdleAlgo /\ IdlePubsub /\ IdleMon /\ IdleOd /\ IdleGr /\ IdleSelf /\ IdleDac

NextGr ==
    GrReconnect \/ OdRawBatched \/ UpdateStateFromObservation \/ GrSetState
        \/ GrDisconnected

SpecGr == InitGrSpec /\ [][NextGr]_vars

InitSelfSpec ==
    IdleJob /\ IdlePump /\ IdleEkf /\ IdleStir /\ IdleAuto /\ IdleAlgo /\ IdlePubsub /\ IdleMon /\ IdleOd /\ IdleGr /\ IdleSelf /\ IdleDac

NextSelf ==
    SelfChecksCall \/ CheckForPowerProblems \/ PublishSelfStatistics \/ RoleChecks
        \/ FlickerLedOff \/ FlickerLedOn \/ FlickerSleep

(* the timer's thread keeps running: a step that can be taken is taken *)
SpecSelf == InitSelfSpec /\ [][NextSelf]_vars /\ WF_vars(NextSelf)

InitDacSpec ==
    IdleJob /\ IdlePump /\ IdleEkf /\ IdleStir /\ IdleAuto /\ IdleAlgo /\ IdlePubsub /\ IdleMon /\ IdleOd /\ IdleGr /\ IdleSelf /\ IdleDac

NextDac == SetIntensityTo \/ PowerDown

SpecDac == InitDacSpec /\ [][NextDac]_vars

----------------------------------------------------------------------------
(* Properties of the job *)

TopicOf(attr) == IF attr = "state" THEN "$state" ELSE attr
IsPub(e, topic) == e.ev = "publish" /\ e.name = topic
IsCall(e, fn) == e.ev = "call" /\ e.name = fn
IsClientStop(e) == e.ev \in {"loop_stop", "disconnect"}
HandlerIs(kind, name) == trace # <<>> /\ trace[1].ev = kind /\ trace[1].name = name
BadSetStateAt(i) == IsCall(trace[i], "set_state") /\ trace[i].val.s \notin LIFECYCLE_STATES

\* C1: the state attribute, the retained $state and every value published to
\* $state is one of init, ready, sleeping, disconnected, lost; a set_state call
\* with any other value (also one that arrived on $state/set) raises and leaves
\* the state as it was.
C1_StateIsLifecycleValue ==
    /\ [](/\ state \in LIFECYCLE_STATES
          /\ retained \in LIFECYCLE_STATES \cup {"none"}
          /\ \A i \in DOMAIN trace :
                IsPub(trace[i], "$state") =>
                    trace[i].val.t = "str" /\ trace[i].val.s \in LIFECYCLE_STATES)
    /\ [][\A i \in DOMAIN trace' :
             BadSetStateAt(i)' =>
                /\ state' = state
                /\ i < Len(trace')
                /\ trace'[i + 1].ev = "raise"]_vars

C1_Witness ==
    /\ HandlerIs("call", "set_attr_from_message")
    /\ \E i \in DOMAIN trace : BadSetStateAt(i)
    /\ state = SLEEPING

\* C2 (as claimed): once the job is constructed its state changes only along
\* init->ready, ready->sleeping, sleeping->ready and (any)->disconnected, and
\* never leaves disconnected.
C2_OnlyLifecycleTransitions ==
    [][(pc = "running" /\ state' # state) =>
          \/ <<state, state'>> \in {<<INIT, READY>>, <<READY, SLEEPING>>, <<SLEEPING, READY>>}
          \/ (state # DISCONNECTED /\ state' = DISCONNECTED)]_vars

\* C3: an assignment to a listed setting (state included) is followed at once
\* by exactly one publish of the assigned value to the setting's topic, retained
\* and with QoS 2; an assignment to another attribute is not followed by a
\* publish to that attribute.
C3_AssignmentPublishes ==
    \A i \in DOMAIN trace :
        trace[i].ev = "assign" =>
            IF trace[i].name \in EditableSet
            THEN /\ i < Len(trace)
                 /\ trace[i + 1] = PubEv(TopicOf(trace[i].name), trace[i].val, TRUE, EXACTLY_ONCE)
                 /\ (i + 1 < Len(trace) => ~IsPub(trace[i + 2], TopicOf(trace[i].name)))
            ELSE i < Len(trace) => ~IsPub(trace[i + 1], TopicOf(trace[i].name))

C3_Witness ==
    /\ \E i \in DOMAIN trace :
          trace[i].ev = "assign" /\ trace[i].name = "volume" /\ trace[i].val = FloatV(25)
    /\ attrs.volume = FloatV(25)

HookName(attr) == IF attr = "state" THEN "set_state" ELSE "none"
NumCalls(tr, fn, arg) ==
    Cardinality({i \in DOMAIN tr : IsCall(tr[i], fn) /\ tr[i].val = arg})
NoOwnAssignment(tr) ==
    \A i \in DOMAIN tr : tr[i].ev = "assign" => tr[i].by # "set_attr_from_message"

\* C4 (as claimed): for a /set message on a listed setting without a set_<attr>
\* hook the attribute becomes the payload cast to the type of its current value
\* (with a hook: one hook call with the payload, no assignment by the handler).
C4_CastToCurrentType ==
    [][(HandlerIs("call", "set_attr_from_message")'
        /\ lstrip_dollar(trace'[1].by) \in EditableSet) =>
          LET a == lstrip_dollar(trace'[1].by)
              p == trace'[1].val.s
          IN  IF HasSetHook(a)
              THEN NumCalls(trace', HookName(a), StrV(p)) = 1 /\ NoOwnAssignment(trace')
              ELSE /\ attrs'[a].t = attrs[a].t
                   /\ Cast(attrs[a].t, p).err = "none" => attrs'[a] = Cast(attrs[a].t, p).val]_vars

\* C4 (amended): with a hook, the hook is called once with the decoded payload
\* and the handler assigns nothing itself.  Without a hook the payload is cast
\* to the type of the current value: if the cast returns, the attribute becomes
\* the cast value; if it raises TypeError (the current value is None), the
\* attribute becomes the decoded payload string; if it raises anything else
\* (ValueError), the attribute keeps its value and the exception leaves the
\* handler.  No other attribute changes.
C4_SetAttrFromMessage ==
    [][(HandlerIs("call", "set_attr_from_message")'
        /\ lstrip_dollar(trace'[1].by) \in EditableSet) =>
          LET a == lstrip_dollar(trace'[1].by)
              p == trace'[1].val.s
          IN  IF HasSetHook(a)
              THEN NumCalls(trace', HookName(a), StrV(p)) = 1 /\ NoOwnAssignment(trace') /\ attrs' = attrs
              ELSE LET c == Cast(attrs[a].t, p)
                   IN  /\ \A b \in DOMAIN attrs : b # a => attrs'[b] = attrs[b]
                       /\ state' = state
                       /\ CASE c.err = "none" -> attrs'[a] = c.val
                            [] c.err = "TypeError" -> attrs'[a] = StrV(p)
                            [] OTHER -> /\ attrs'[a] = attrs[a]
                                        /\ trace'[Len(trace')] =
                                              RaiseEv(c.err, "set_attr_from_message")]_vars

C4_Witness ==
    /\ HandlerIs("call", "set_attr_from_message")
    /\ trace[1].by = "target_od"
    /\ attrs.target_od = StrV("2.5")

\* C5: with another process of the same job_name running, construction raises
\* before a bus client exists and before anything is published; the state stays
\* disconnected and the job never gets further.
C5_DuplicateRefused ==
    othersRunning >= 1 =>
        /\ pc \in {"new", "raised"}
        /\ state = DISCONNECTED
        /\ pubClient = "none" /\ subConn = "none" /\ ~brokerSession
        /\ retained = "none"
        /\ \A i \in DOMAIN trace : trace[i].ev # "publish"
        /\ pc = "raised" =>
              trace[Len(trace)] = RaiseEv("ValueError", "check_for_duplicate_process")

C5_Witness == pc = "raised" /\ othersRunning >= 1 /\ exitCode # 0

\* C6: in a handler that moves the job to disconnected, every loop_stop and
\* disconnect of a bus client comes after the on_disconnect hook was called and
\* after $state = disconnected was published (retained), and the subscriber's
\* loop is stopped.
C6_ClientsStoppedLast ==
    (\E i \in DOMAIN trace : trace[i] = AssignEv("state", StrV(DISCONNECTED), "disconnected")) =>
        /\ \E j \in DOMAIN trace : trace[j] = ClientEv("loop_stop", "sub")
        /\ \A j \in DOMAIN trace :
              IsClientStop(trace[j]) =>
                 /\ \E h \in 1..(j - 1) : IsCall(trace[h], "on_disconnect")
                 /\ \E q \in 1..(j - 1) :
                       trace[q] = PubEv("$state", StrV(DISCONNECTED), TRUE, EXACTLY_ONCE)

C6_Witness ==
    /\ state = DISCONNECTED
    /\ \E j \in DOMAIN trace : trace[j] = ClientEv("loop_stop", "pub")
    /\ \E i \in DOMAIN trace : trace[i] = AssignEv("state", StrV(DISCONNECTED), "disconnected")

SignalHandled == trace # <<>> /\ trace[1].ev = "signal" /\ trace[1].name \in Signals

\* C7 (as claimed): a ready or sleeping job in the main thread that gets
\* SIGTERM, SIGINT or SIGHUP becomes disconnected, SIGUSR1 is raised by the
\* subscriber's clean disconnect and the process exits with code 0, after
\* $state = disconnected was published.
C7_SignalExits ==
    [][(SignalHandled' /\ pc = "running" /\ state \in {READY, SLEEPING} /\ ~testing) =>
          /\ state' = DISCONNECTED
          /\ \E k \in DOMAIN trace' :
                /\ trace'[k] = ClientEv("kill", "SIGUSR1")
                /\ \E q \in 1..(k - 1) :
                      trace'[q] = PubEv("$state", StrV(DISCONNECTED), TRUE, EXACTLY_ONCE)
          /\ pc' = "exited"
          /\ exitCode' = 0]_vars

\* C8 (as claimed): when the process dies without the exit protocol the
\* retained $state is lost; after a graceful disconnect the retained $state is
\* disconnected and lost never replaces it.
C8_LostOnlyOnDeath ==
    [][(pc = "running" /\ ~usr1Pending) =>
          /\ (/\ state # DISCONNECTED /\ subLoop /\ pubClient = "open"
              /\ HandlerIs("signal", "SIGKILL")') => retained' = LOST
          /\ (state # DISCONNECTED /\ state' = DISCONNECTED) => retained' = DISCONNECTED
          /\ (state = DISCONNECTED /\ retained = DISCONNECTED /\ state' = DISCONNECTED)
                => retained' # LOST]_vars

\* C9: when the subscriber client has lost its connection with rc # 0 the job
\* keeps running, and when the client reconnects the job republishes its state
\* retained: after the reconnect the retained $state equals the job's state (so
\* it is not lost) and the /set filters are subscribed again.
C9_ReconnectRepublishes ==
    /\ HandlerIs("connection_lost", "sub") => Alive(pc) /\ subLoop /\ exitCode = -1
    /\ HandlerIs("reconnect", "sub") =>
          /\ Alive(pc) /\ exitCode = -1
          /\ retained = state /\ retained # LOST
          /\ \E i \in DOMAIN trace : trace[i] = PubEv("$state", StrV(state), TRUE, EXACTLY_ONCE)
          /\ subConn = "up" /\ brokerSession /\ subscribed

C9_Witness ==
    /\ HandlerIs("reconnect", "sub")
    /\ state = SLEEPING
    /\ retained = SLEEPING

OnDisconnectRaisedAt(i) == trace[i] = RaiseEv("Exception", "on_disconnect")

\* C27: in a handler whose on_disconnect hook raised, the job ends in
\* DISCONNECTED, $state = disconnected is published (retained) after the hook,
\* the subscriber's loop is stopped and its client disconnected after the hook,
\* and both bus clients are closed.
C27_DisconnectDespiteHookFailure ==
    \A i \in DOMAIN trace :
        OnDisconnectRaisedAt(i) =>
            /\ state = DISCONNECTED
            /\ \E q \in (i + 1)..Len(trace) :
                  trace[q] = PubEv("$state", StrV(DISCONNECTED), TRUE, EXACTLY_ONCE)
            /\ \E j \in (i + 1)..Len(trace) : trace[j] = ClientEv("loop_stop", "sub")
            /\ \E j \in (i + 1)..Len(trace) : trace[j] = ClientEv("disconnect", "sub")
            /\ ~subLoop /\ subConn = "closed" /\ pubClient = "closed"

C27_Witness ==
    /\ \E i \in DOMAIN trace : OnDisconnectRaisedAt(i)
    /\ \E j \in DOMAIN trace : trace[j] = ClientEv("disconnect", "pub")
    /\ retained = DISCONNECTED

UnlistedSetMessage(tr) ==
    /\ tr # <<>> /\ tr[1].ev = "call" /\ tr[1].name = "set_attr_from_message"
    /\ lstrip_dollar(tr[1].by) \notin EditableSet

\* C25: a message on <job>/<attr>/set whose attr is not a listed setting
\* changes no attribute of the job (state included), calls no hook and
\* publishes nothing: the handler does nothing but receive the message.
C25_UnlistedSettingIgnored ==
    [][UnlistedSetMessage(trace') =>
          /\ attrs' = attrs /\ state' = state /\ retained' = retained
          /\ \A i \in 2..Len(trace') : trace'[i].ev \notin {"call", "assign", "publish"}]_vars

C25_Witness ==
    /\ UnlistedSetMessage(trace)
    /\ trace[1].by = "latest_od" /\ trace[1].val = StrV("2.5")
    /\ attrs.latest_od = NoneV

\* C26 (as claimed): the handler of a message on <job>/<attr>/set whose attr is
\* not a listed setting writes a log record that names the attribute.
C26_UnlistedSettingLogged ==
    UnlistedSetMessage(trace) =>
        \E i \in DOMAIN trace : trace[i].ev = "log" /\ trace[i].name = lstrip_dollar(trace[1].by)

----------------------------------------------------------------------------
(* Properties of add_media *)

PubsBefore(k) == {j \in 1..(k - 1) : IsPub(atrace[j], "dosing_events")}

\* C10: when add_media starts the PWM, exactly one dosing event of the call
\* has been published to dosing_events before, with QoS 2, and the event's
\* volume_change is the ml that the call returns.
C10_EventBeforePulse ==
    \A k \in DOMAIN atrace :
        atrace[k] = PwmEv("start") =>
            /\ Cardinality(PubsBefore(k)) = 1
            /\ \A j \in PubsBefore(k) :
                  /\ atrace[j].qos = EXACTLY_ONCE
                  /\ dosing # <<>> /\ dosing[1] = DosingEvent(atrace[j].val)
                  /\ atrace[j].val = aml
                  /\ apc = "returned" => aresult = atrace[j].val

C10_Witness ==
    /\ apc = "returned"
    /\ \E k \in DOMAIN atrace : atrace[k] = PwmEv("start")
    /\ aresult = FloatV(4)
    /\ ain.ml = NoneV

(* the request is one add_media refuses: add_media.py 35-40, 42-46, 49, 62 *)
Refused(in) ==
    \/ ~in.cal.has
    \/ ~in.configured
    \/ ~IsNone(in.ml) /\ in.ml.n < 0
    \/ computed_duration(in).n < 0

AtraceHas(e) == \E k \in DOMAIN atrace : atrace[k] = e
CountOf(e) == Cardinality({k \in DOMAIN atrace : atrace[k] = e})

\* C14: a call of add_media that refuses its request (no calibration stored, no
\* PWM channel configured, negative ml, negative computed duration) ends without
\* having published a dosing event and without creating, locking or starting
\* the PWM.
C14_RefusalHasNoEffect ==
    (apc \notin {"idle", "called"} /\ Refused(ain)) =>
        /\ apc \in {"returned", "raised"}
        /\ dosing = <<>>
        /\ pwm = "none"
        /\ atrace = <<>>

C14_Witness ==
    /\ apc = "raised"
    /\ ain.cal.has /\ ain.configured
    /\ ~IsNone(ain.ml) /\ ain.ml.n >= 0 /\ IsNone(ain.duration)
    /\ computed_duration(ain).n < 0
    /\ aresult = StrV("AssertionError")

(* the call has left the try block of add_media.py 77-101 *)
LeftActuationBlock ==
    /\ apc \in {"returned", "raised"}
    /\ AtraceHas(PwmEv("create")) \/ AtraceHas(PwmEv("create_failed"))

\* C15 (as claimed): however add_media leaves its actuation block, the PWM has
\* been stopped and then cleaned up exactly once, and the lock was tried at
\* most once.
C15_StopThenCleanupOnce ==
    LeftActuationBlock =>
        /\ CountOf(PwmEv("stop")) = 1
        /\ CountOf(PwmEv("cleanup")) = 1
        /\ \A i, j \in DOMAIN atrace :
              (atrace[i] = PwmEv("stop") /\ atrace[j] = PwmEv("cleanup")) => i < j
        /\ CountOf(PwmEv("lock")) + CountOf(PwmEv("lock_failed")) <= 1
        /\ pwm = "cleaned"

(* nothing outside add_media failed during the call *)
NoFailure ==
    \A k \in DOMAIN atrace :
        /\ atrace[k].ev # "publish_failed"
        /\ atrace[k] \notin {PwmEv("create_failed"), PwmEv("lock_failed"),
                              PwmEv("start_failed")}

\* C16 (as claimed): a call with continuously=True and neither ml nor duration
\* (calibration stored, channel configured, no failure of the bus or the PWM)
\* ends only by an interrupt, after the pump was started, and then with the PWM
\* stopped and cleaned up.
C16_ContinuousRunsUntilInterrupted ==
    (/\ ain.continuously /\ IsNone(ain.ml) /\ IsNone(ain.duration)
     /\ ain.cal.has /\ ain.configured
     /\ NoFailure
     /\ apc \in {"returned", "raised"}) =>
        /\ aresult = StrV("KeyboardInterrupt")
        /\ AtraceHas(PwmEv("start"))
        /\ AtraceHas(PwmEv("stop")) /\ AtraceHas(PwmEv("cleanup"))
        /\ pwm = "cleaned"

\* C36 (as claimed): add_media returns the volume actually delivered; a call
\* that returns without the PWM having been started (the lock was not
\* acquired, or an exception came before pwm.start succeeded) returns 0.
C36_ReturnsDeliveredVolume ==
    (apc = "returned" /\ AtraceHas(PwmEv("create")) /\ ~AtraceHas(PwmEv("start"))) =>
        aresult.n = 0

----------------------------------------------------------------------------
(* Properties of the growth-rate calculator and the EKF *)

\* C11 (as claimed): every dosing event that add_media publishes reaches the
\* GrowthRateCalculator, and its handler runs to the end and opens a
\* variance-inflation window.
C11_DosingEventsInflate ==
    /\ \A i \in DOMAIN grc.dropped : grc.dropped[i].by # "add_media"
    /\ \A i \in DOMAIN grc.handled :
          grc.handled[i].by = "add_media" => grc.handled[i].out = "scaled"

TimerRestored(i) == ekf.timers[i].st = "r1" /\ ekf'.timers[i].st = "r2"

\* C12 (as claimed): a scaling call that finds a window open cancels the
\* pending restore and applies the inflation again; in a run of overlapping
\* windows the only restore happens one window after the last call and gives
\* back the covariance from before the run's first call.
C12_OneRestorePerRun ==
    [][/\ (ekf.hpc = "f3" /\ ekf'.hpc = "idle" /\ ekf.openAtStart) =>
             /\ ekf'.herr = "none"
             /\ ekf'.scaling
             /\ ekf'.cov = Inflate(ekf.base)
             /\ \A i \in DOMAIN ekf'.timers :
                   IF i = Len(ekf'.timers)
                   THEN ekf'.timers[i] = [st |-> "waiting", deadline |-> ekf.lastEvent + Window]
                   ELSE ekf'.timers[i].st \in {"cancelled", "done"}
       /\ \A i \in DOMAIN ekf.timers : TimerRestored(i) => ekf'.cov = ekf.base
       /\ (ekf.events > 0 /\ ekf.hpc = "idle" /\ ekf.now < ekf.lastEvent + Window) =>
             /\ ekf.herr = "none"
             /\ ekf.scaling
             /\ ekf.pre = ekf.base
       /\ (ekf.events > 0 /\ ekf'.now > ekf.lastEvent + Window) =>
             /\ ekf.restores = 1
             /\ ~ekf.scaling
             /\ ekf.pre = NoneCov]_vars

\* C31 (as claimed): however the calls of scale_OD_variance_for_next_n_seconds
\* interleave with the restore timer, no restore (and no scaling) runs into a
\* missing pre-scale covariance, and whenever the filter is marked as
\* currently scaling (outside a call that is still replacing its timer) a
\* pre-scale covariance is saved and a restore timer is pending.
C31_ScalingStateConsistent ==
    /\ \A i \in DOMAIN ekf.timers : ekf.timers[i].st # "crashed"
    /\ ekf.herr = "none"
    /\ ekf.scaling /\ ekf.hpc = "idle" =>
           ekf.pre # NoneCov /\ LiveTimers(ekf) # {}

----------------------------------------------------------------------------
(* Properties of the Stirrer *)

\* C13 (as claimed): in every state of the Stirrer from its construction on,
\* 0 <= duty_cycle <= 100, and every duty cycle handed to the PWM is in [0, 100].
C13_DutyCycleInRange ==
    stir.spc # "new" =>
        /\ 0 <= stir.duty_cycle /\ stir.duty_cycle <= 100
        /\ \A i \in DOMAIN stir.handed : 0 <= stir.handed[i] /\ stir.handed[i] <= 100

\* C28 (as claimed): the transition READY -> SLEEPING of the Stirrer sets the
\* duty cycle to 0 (attribute and PWM) and leaves the RPM polling thread not
\* running; the following transition SLEEPING -> READY sets the duty cycle to
\* the value it had just before the job went to sleep and leaves the polling
\* thread running.
C28_SleepAndWakeRestoreDutyCycle ==
    [][ /\ (stir.lifecycle = READY /\ stir'.lifecycle = SLEEPING)
            => /\ stir'.duty_cycle = 0
               /\ stir'.handed # <<>> /\ stir'.handed[Len(stir'.handed)] = 0
               /\ stir'.thread # "running"
               /\ stir'.previous_duty_cycle = stir.duty_cycle
        /\ (stir.lifecycle = SLEEPING /\ stir'.lifecycle = READY)
            => /\ stir'.duty_cycle = stir.previous_duty_cycle
               /\ stir'.handed[Len(stir'.handed)] = stir.previous_duty_cycle
               /\ stir'.thread = "running" ]_vars

\* C33 (as claimed): while the Stirrer is SLEEPING, every duty cycle handed to
\* the PWM is 0, whatever set messages and polls interleave with the sleep.
C33_SleepingKeepsPwmAtZero ==
    stir.lifecycle = SLEEPING =>
        \A i \in DOMAIN stir.handed : stir.handed[i] = 0

----------------------------------------------------------------------------
(* Properties of the automation's run() *)

\* C17 (as claimed): run() calls execute() only while the job's state is READY;
\* and a run that has waited for more than 25% of duration with the state other
\* than READY at every 5 s check returns NoEvent without having called execute().
C17_ExecuteOnlyWhenReady ==
    /\ auto.state_at_execute \in {"none", READY}
    /\ (auto.rpc = "finish" /\ waited_too_long(auto.duration, auto.counter)) =>
           /\ auto.event = "NoEvent"
           /\ ~auto.executed
    /\ auto.rpc \in {"loop", "sleep"} => ~waited_too_long(auto.duration, auto.counter)

\* C18: when execute() raises, run() goes on to its end: it returns
\* ErrorOccurred and records it as latest_event; the run changes neither the
\* lifecycle state nor the timer that schedules the next run.
C18_ErrorOccurredNotRaised ==
    [][/\ (auto.rpc = "execute" /\ auto'.raised) =>
             /\ auto'.rpc = "finish" /\ auto'.event = "ErrorOccurred"
             /\ auto'.state = auto.state /\ auto'.run_thread = auto.run_thread
       /\ (auto.rpc = "finish" /\ auto.raised /\ auto'.rpc # "finish") =>
             /\ auto'.rpc = "idle"
             /\ auto'.returned = "ErrorOccurred" /\ auto'.latest_event = "ErrorOccurred"
             /\ auto'.state = auto.state /\ auto'.run_thread = auto.run_thread
       /\ (auto.raised /\ auto'.rpc = "idle" /\ auto.rpc # "idle") =>
             auto'.returned = "ErrorOccurred"]_vars

C18_Witness ==
    /\ auto.log = <<"ErrorOccurred", "Event">>
    /\ auto.latest_event = "Event"
    /\ auto.run_thread = "repeated_timer"
    /\ auto.state = READY

ActiveTimers(a) == {i \in DOMAIN a.timers : a.timers[i].active}

\* C35 (as claimed): while the automation is connected and its duration is d
\* minutes, set at construction or by a later set_duration, exactly one
\* RepeatedTimer is active and its interval is d*60 seconds: no timer made for
\* an earlier duration still calls run().
C35_OneActiveScheduler ==
    (auto.apc = "alive" /\ auto.state # DISCONNECTED /\ ~IsNone(auto.duration)) =>
        /\ Cardinality(ActiveTimers(auto)) = 1
        /\ \A i \in ActiveTimers(auto) : auto.timers[i].interval = auto.duration.n * 60

\* C39 (as claimed): every call of run() terminates, also when duration is
\* None: no run() is ever left waiting in its loop once the job is
\* DISCONNECTED (a state it never leaves) with no waiting limit to end the wait.
C39_RunTerminates ==
    ~(/\ auto.rpc \in {"loop", "sleep"}
      /\ auto.state = DISCONNECTED
      /\ IsNone(auto.duration))

----------------------------------------------------------------------------
(* Properties of the control algorithms *)

Dilution(volume) == <<PumpCall("remove_waste", volume), PumpCall("add_media", volume)>>
AltMedia(volume) == <<PumpCall("remove_waste", volume), PumpCall("add_alt_media", volume)>>

\* C19 (as claimed): a run of a Turbidostat with target OD T removes waste and
\* then adds `volume` ml of media exactly when the latest OD is at or above T,
\* and otherwise calls no pump.
C19_TurbidostatDilutesAtTarget ==
    (algo.mode = "turbidostat" /\ algo.runs > 0) =>
        algo.pumped = IF algo.latest_od >= algo.target_od
                      THEN Dilution(algo.volume) ELSE <<>>

\* C20 (as claimed): the first run of a Morbidostat calls no pump; a later run
\* adds alt-media when the latest OD is above T and above the OD of the
\* previous run, and otherwise dilutes with media.
C20_MorbidostatFirstRunIdle ==
    algo.mode = "morbidostat" =>
        /\ algo.runs = 1 => algo.pumped = <<>>
        /\ algo.runs > 1 =>
              algo.pumped = IF algo.latest_od > algo.target_od
                                /\ algo.latest_od > algo.previous_od
                             THEN AltMedia(algo.volume) ELSE Dilution(algo.volume)

FractionLeq(f, g) == f.num * g.den <= g.num * f.den

----------------------------------------------------------------------------
(* Properties of pubsub.publish *)

\* C23 (as claimed): a call of pubsub.publish ends (returns or raises) only in a
\* step in which a publish attempt succeeded, so it goes on retrying while
\* the broker is unreachable, and it ends in the step of its first success.
C23_PublishRetriesUntilDelivered ==
    [][ (apc \in {"publishing", "republishing"})
           => /\ apc' # apc => Len(dosing') = Len(dosing) + 1
              /\ Len(dosing') = Len(dosing) + 1 => apc' # apc ]_vars

\* C22 (as claimed): once a subscription callback has raised, every exception
\* was logged, the client's loop has not ended because of it and no later
\* message of the subscription went undelivered; for the callbacks of
\* BackgroundJob.subscribe_and_callback and of pubsub.subscribe_and_callback.
C22_CallbackExceptionKeepsDelivery ==
    cb.raised > 0 => /\ cb.logged = cb.raised
                     /\ cb.loop # "dead"
                     /\ cb.undelivered = 0

----------------------------------------------------------------------------
(* Properties of the Monitor *)

\* C29 (as claimed): once the Monitor has started, every job whose retained
\* $state was init, ready or sleeping at startup and that was not among the
\* running job processes has had $state = lost published (retained); a job
\* whose retained $state was disconnected or lost at startup has kept it
\* unless it was started since.
C29_StartupMarksDeadJobsLost ==
    mon.mpc # "new" =>
        \A j \in Jobs :
            /\ (mon.startup_retained[j] \in {INIT, READY, SLEEPING}
                    /\ j \notin mon.startup_running)
                  => j \in mon.lost_published
            /\ (mon.startup_retained[j] \in {DISCONNECTED, LOST} /\ j \notin mon.running)
                  => mon.retained[j] = mon.startup_retained[j]

\* C37 (as claimed): the reconciliation of the Monitor never publishes
\* $state = lost for a job whose process is running on the node, a job that
\* starts and announces its state during the 2.5 s window included.
C37_NoLostForRunningJob ==
    mon.lost_while_running = {}

----------------------------------------------------------------------------
(* Properties of the ODReader *)

LastPublished(o) == IF o.published = <<>> THEN "none" ELSE o.published[Len(o.published)]

\* C30: when the try block of take_reading raised OSError, the call reported
\* to error_log, paused 5 s and returned normally; when it raised any other
\* exception, the call reported to error_log and raised that exception
\* without pausing; when it raised nothing, nothing went to error_log.
C30_TakeReadingErrorHandling ==
    /\ odr.raised_in_try = "OSError"
          => odr.result = "None" /\ odr.slept = 5 /\ LastPublished(odr) = "error_log"
    /\ odr.raised_in_try \notin {"none", "OSError"}
          => /\ odr.result = odr.raised_in_try /\ odr.slept = 0
             /\ LastPublished(odr) = "error_log"
    /\ odr.raised_in_try = "none"
          => \A i \in DOMAIN odr.published : odr.published[i] # "error_log"

C30_Witness ==
    /\ odr.history = <<"none", "OSError">>
    /\ odr.raised_in_try = "TypeError" /\ odr.result = "TypeError"
    /\ odr.published = <<"od_raw/135/A", "od_raw/90/A", "od_raw_batched", "error_log">>

----------------------------------------------------------------------------
(* Properties of the GrowthRateCalculator *)

\* C32 (as claimed): whatever the number of broker reconnects, no
\* od_raw_batched message is applied to the EKF more than once or leads to
\* more than one growth_rate publish: a reconnect duplicates no listener.
C32_BatchAppliedOnce ==
    \A b \in 1..gr.batches :
        /\ gr.applied[b] <= 1
        /\ gr.growth[b] <= 1

----------------------------------------------------------------------------
(* Properties of Monitor.self_checks *)

\* C38 (as claimed): every run of self_checks terminates, also when a fault is
\* signalled by an LED error code, and outside the testing environment
\* computer_statistics has then been published for that run.
C38_SelfChecksTerminate ==
    (sc.spc = "power") ~> (sc.spc = "idle" /\ (sc.testing \/ sc.published))

----------------------------------------------------------------------------
(* Properties of the Pico_DAC *)

\* C40 (as claimed): for every intensity in 0..100, set_intensity_to writes
\* the command byte and round(intensity * 256 / 100) as a single byte, a value
\* in 0..255.
C40_WritesOneByte ==
    dac.calls > 0 =>
        /\ dac.raised = "none"
        /\ dac.written = <<2, python_round(dac.intensity * 256, 100)>>
        /\ dac.written[2] \in 0..255

====
